---- MODULE Spec2Model ----
(***************************************************************************)
(* Model of the per-request collector of repro-nest-sdk:                   *)
(*   - the Assembler (balanceTraceEvents, reorderTraceEvents, chunkArray)  *)
(*     of src/src/index.ts, as pure operators;                             *)
(*   - the HTTP middleware (reproMiddleware) of src/src/index.ts with its  *)
(*     listener on the tracer's event bus, its idle and hard-stop timers   *)
(*     and its flush;                                                      *)
(*   - the part of the tracer runtime (src/tracer/runtime.js) the          *)
(*     middleware relies on: withTrace, trace.on, emit, trace.enter,       *)
(*     trace.exit on the synchronous path, the span counter.               *)
(***************************************************************************)
EXTENDS Integers, Sequences, FiniteSets, TLC

\* ------------------------------------------------------------------------
\* Bounds of the model
\* ------------------------------------------------------------------------
\* longest collected event list explored by the Assembler specification
MaxEvents == 4
\* number of spans the Assembler specification opens
MaxSpans == 3

\* number of events the tracer emits in the middleware specification
MaxEmits == 2
\* number of 'finish' notifications of one response
MaxFinish == 2
\* the clock of the middleware specification advances by at most TickMs at a
\* time (never past a pending timer) until it reaches MaxTime
TickMs == 10
MaxTime == 10

\* number of sequential calls whose trace the chunking specification flushes
MaxCalls == 110

\* number of calls of emit and of trace.on in the event bus specification
MaxBusEmits == 3
MaxBusSubs == 3

\* ------------------------------------------------------------------------
\* Values
\* ------------------------------------------------------------------------
\* null span id / parent span id (span ids are ++SPAN_COUNTER, so >= 1)
Null == 0
\* JavaScript undefined for a return value or an error
Undefined == "undefined"
\* function names used by the traced application
Fns == {"f", "g"}

\* identification fields of a function: fn, file, line, functionType
MkMeta(fn) ==
    [fn |-> fn, file |-> "app.js", line |-> IF fn = "f" THEN 1 ELSE 2,
     functionType |-> "function"]

\* the record the middleware's listener stores for an enter
EnterRecord(fn, depth, spanId, parentSpanId) ==
    [type |-> "enter", fn |-> MkMeta(fn).fn, file |-> MkMeta(fn).file,
     line |-> MkMeta(fn).line, functionType |-> MkMeta(fn).functionType,
     depth |-> depth, spanId |-> spanId, parentSpanId |-> parentSpanId,
     returnValue |-> Undefined, threw |-> FALSE, error |-> Undefined,
     unawaited |-> FALSE]

\* the record the middleware's listener stores for an exit
ExitRecord(fn, depth, spanId, parentSpanId, rv, threw, err, unawaited) ==
    [type |-> "exit", fn |-> MkMeta(fn).fn, file |-> MkMeta(fn).file,
     line |-> MkMeta(fn).line, functionType |-> MkMeta(fn).functionType,
     depth |-> depth, spanId |-> spanId, parentSpanId |-> parentSpanId,
     returnValue |-> rv, threw |-> threw, error |-> err,
     unawaited |-> unawaited]

Max(a, b) == IF a >= b THEN a ELSE b
Min(a, b) == IF a <= b THEN a ELSE b

\* ------------------------------------------------------------------------
\* balanceTraceEvents
\* ------------------------------------------------------------------------
\* makeKey: fn|file|line|functionType
makeKey(ev) == <<ev.fn, ev.file, ev.line, ev.functionType>>

\* inner loop: is there an exit with the same key at an index > i
hasExitLater(events, i, key) ==
    \E j \in (i + 1)..Len(events) :
        events[j].type = "exit" /\ makeKey(events[j]) = key

\* the synthetic exit pushed for an enter without a later exit
syntheticExit(ev) ==
    [type |-> "exit", fn |-> ev.fn, file |-> ev.file, line |-> ev.line,
     functionType |-> ev.functionType,
     depth |-> Max(0, ev.depth - 1),
     spanId |-> ev.spanId, parentSpanId |-> ev.parentSpanId,
     returnValue |-> Undefined, threw |-> FALSE, error |-> Undefined,
     unawaited |-> TRUE]

\* the for loop of balanceTraceEvents from index i on, with its two
\* accumulators seenKeys and balanced
RECURSIVE balanceLoop(_, _, _, _)
balanceLoop(events, i, seenKeys, balanced) ==
    IF i > Len(events) THEN balanced
    ELSE LET ev == events[i]
             key == makeKey(ev)
         IN  IF ev.type # "enter"
             THEN balanceLoop(events, i + 1, seenKeys, Append(balanced, ev))
             ELSE IF key \in seenKeys
             THEN balanceLoop(events, i + 1, seenKeys, Append(balanced, ev))
             ELSE IF hasExitLater(events, i, key)
             THEN balanceLoop(events, i + 1, seenKeys, Append(balanced, ev))
             ELSE balanceLoop(events, i + 1, seenKeys \cup {key},
                              balanced \o <<ev, syntheticExit(ev)>>)

balanceTraceEvents(events) ==
    IF Len(events) = 0 THEN events
    ELSE balanceLoop(events, 1, {}, <<>>)

\* ------------------------------------------------------------------------
\* reorderTraceEvents
\* ------------------------------------------------------------------------
\* normalizeId: null/undefined -> null, anything else -> String(v); span ids
\* are distinct positive integers, whose strings are distinct and truthy
normalizeId(v) == IF v = Null THEN Null ELSE v

SetMin(S) == CHOOSE x \in S : \A y \in S : x <= y
SetMax(S) == CHOOSE x \in S : \A y \in S : x >= y

\* keys of the nodes map: the span ids that occur in the list
nodeIds(events) ==
    {normalizeId(events[i].spanId) : i \in 1..Len(events)} \ {Null}

\* indices of the events of span id
spanIndices(events, id) ==
    {i \in 1..Len(events) : normalizeId(events[i].spanId) = id}

\* node.order = Math.min(node.order, idx): index of the span's first event
nodeOrder(events, id) == SetMin(spanIndices(events, id))

\* node.parentId = parentId, assigned at every event: the last one stays
nodeParentId(events, id) ==
    normalizeId(events[SetMax(spanIndices(events, id))].parentSpanId)

\* node.enter = node.enter ?? ev: the first enter of the span stays
enterIndices(events, id) ==
    {i \in spanIndices(events, id) : events[i].type = "enter"}
\* node.exit = ev: the last exit of the span stays
exitIndices(events, id) ==
    {i \in spanIndices(events, id) : events[i].type = "exit"}

\* nodes.forEach: a node whose parent is in the map becomes its child,
\* every other node is pushed to roots
hasParentNode(events, id) ==
    /\ nodeParentId(events, id) # Null
    /\ nodeParentId(events, id) \in nodeIds(events)

\* the children of node id, sorted by order: the node whose first event is
\* at index i belongs to the list iff it is a child of id, and the list is
\* ascending in i (children.sort((a, b) => a.order - b.order)); the roots
\* likewise
isChildAt(events, id, i) ==
    LET c == normalizeId(events[i].spanId)
    IN  /\ c # Null
        /\ i = nodeOrder(events, c)
        /\ hasParentNode(events, c)
        /\ nodeParentId(events, c) = id

isRootNodeAt(events, i) ==
    LET c == normalizeId(events[i].spanId)
    IN  /\ c # Null
        /\ i = nodeOrder(events, c)
        /\ ~hasParentNode(events, c)

\* emitNode: the enter with the tree depth, the children in ascending
\* order, the exit with the tree depth
RECURSIVE emitNode(_, _, _)
RECURSIVE emitChildren(_, _, _, _)

\* mutant of emitChildren: the children are emitted in descending order
RECURSIVE emitChildren_descending(_, _, _, _)
emitChildren_descending(events, id, depth, i) ==
    IF i > Len(events) THEN <<>>
    ELSE emitChildren_descending(events, id, depth, i + 1)
         \o (IF isChildAt(events, id, i)
             THEN emitNode(events, normalizeId(events[i].spanId), depth)
             ELSE <<>>)

\* node.children.forEach(child => emitNode(child, depth + 1)), from the
\* child of order >= i on
emitChildren(events, id, depth, i) ==
    IF i > Len(events) THEN <<>>
    ELSE (IF isChildAt(events, id, i)
          THEN emitNode(events, normalizeId(events[i].spanId), depth)
          ELSE <<>>)
         \o emitChildren(events, id, depth, i + 1)

\* mutant of emitNode: the depth of the exit is left as it was recorded
emitNode_exitDepthKept(events, id, depth) ==
    LET ens == enterIndices(events, id)
        exs == exitIndices(events, id)
        enterPart == IF ens = {} THEN <<>>
                     ELSE <<[events[SetMin(ens)] EXCEPT !.depth = depth]>>
        exitPart  == IF exs = {} THEN <<>>
                     ELSE <<events[SetMax(exs)]>>
    IN  enterPart \o emitChildren(events, id, depth + 1, 1) \o exitPart

emitNode(events, id, depth) ==
    LET ens == enterIndices(events, id)
        exs == exitIndices(events, id)
        enterPart == IF ens = {} THEN <<>>
                     ELSE <<[events[SetMin(ens)] EXCEPT !.depth = depth]>>
        exitPart  == IF exs = {} THEN <<>>
                     ELSE <<[events[SetMax(exs)] EXCEPT !.depth = depth]>>
    IN  enterPart \o emitChildren(events, id, depth + 1, 1) \o exitPart

\* roots.sort((a, b) => a.order - b.order); roots.forEach: the entry of
\* order i is the event at index i if it has no span id (pushed as it is),
\* or the parentless node whose first event is at index i (emitted at
\* depth 1); from the entry of order >= i on
RECURSIVE emitRoots(_, _)
emitRoots(events, i) ==
    IF i > Len(events) THEN <<>>
    ELSE (IF normalizeId(events[i].spanId) = Null THEN <<events[i]>>
          ELSE IF isRootNodeAt(events, i)
          THEN emitNode(events, normalizeId(events[i].spanId), 1)
          ELSE <<>>)
         \o emitRoots(events, i + 1)

\* mutant of reorderTraceEvents: the list is left in collection order
reorderTraceEvents_asCollected(events) == events

reorderTraceEvents(events) ==
    IF Len(events) = 0 THEN events
    ELSE emitRoots(events, 1)

\* flushPayload, line 1433: reorderTraceEvents(balanceTraceEvents(events))
assemble(events) == reorderTraceEvents(balanceTraceEvents(events))

\* ------------------------------------------------------------------------
\* State
\* ------------------------------------------------------------------------
VARIABLES
    \* -- Assembler specification --
    collected,      \* the events array of one request, as the listener filled it
    spanTable,      \* the spans pushSpan created: <<[fn, parentId, depth]>>
    asmPc,          \* "collect", "assembled", "again"
    balanced,       \* balanceTraceEvents(collected)
    assembled,      \* reorderTraceEvents(balanced)
    reassembled,    \* the Assembler applied to assembled
    \* -- middleware specification --
    now,            \* Date.now(), in ms
    tracerReady,    \* __TRACER_READY (and __TRACER__ # null)
    idleMs,         \* TRACE_IDLE_FLUSH_MS, read from the environment at load
    lingerMs,       \* TRACE_LINGER_AFTER_FINISH_MS, read from the environment
    SPAN_COUNTER,   \* runtime.js: the last span id handed out
    listeners,      \* runtime.js: the set of subscribed listeners, by request
    emitCount,      \* number of events passed to emit so far
    mw,             \* per request: the closure state of reproMiddleware
    posts,          \* the payloads handed to post(), in order
    \* -- chunking specification --
    chunkPc,        \* "ready", "flushed"
    chunkRid,       \* the scope id of the flushing request
    chunkEvents,    \* balancedEvents of flushPayload
    chunkPosts,     \* the trace batch payloads handed to post(), in order
    \* -- event bus specification --
    busEntries,     \* runtime.js listeners: the entries of the Set, in insertion
                    \* order; an entry deleted during an iteration stays as Null
    EMITTING,       \* runtime.js EMITTING
    busEv,          \* the event emit is delivering (its number), or Null
    busIter,        \* position of the Set iterator of the running emit
    busInCb,        \* the listener that is running, or Null
    busSeq,         \* number of calls of emit so far: events are numbered
    busSubs,        \* number of calls of trace.on so far
    busRecv,        \* per listener: the events it was called with, in order
    busActive,      \* per listener: subscribed and not removed since
    busRemovedIn,   \* per listener: the event in delivery when it was removed
    busIgnored,     \* the events emitted while another one was in delivery
    busThrew,       \* the events in delivery when a listener threw
    \* -- dispatcher specification --
    dispCfg,        \* the call: what fn is, whether a scope is active, how
                    \* its invocations behave, how its thenable settles
    dispPc,         \* "start", "entered", "resume", "awaiting", "done"
    dispEvents,     \* the events passed to emit, in order
    dispInv,        \* number of invocations of fn so far
    dispResult,     \* what __repro_call gave its caller: a value or an exception
    dispHandlers,   \* the continuations attached to thenables, in order
    dispFired,      \* the callbacks the thenables have called so far
    \* -- scope engine specification --
    alsCfg,         \* the application that runs and how it is instrumented
    alsM,           \* the heap: the AsyncLocalStorage stores, the promises,
                    \* the query builders, the microtask queue, the pending
                    \* timers, SPAN_COUNTER, Qp.exec, the events emitted, and
                    \* for each event, span and call who it belongs to
    alsCur,         \* als.getStore(): the store of the running code, or 0
    alsCtl,         \* the call stack of the running job
    alsRet,         \* the value the last call returned
    \* -- call-site rewrite specification --
    plugSite,       \* the call expression of the source unit: its callee, the
                    \* expressions around it and the position of the outermost
    plugCode,       \* what stands at the call site: the call as written or
                    \* the argument list of the dispatcher call
    plugDep,        \* the export of a dependency: "original" or "wrapped"
    plugCalls       \* the calls __repro_call received, in order

asmVars == <<collected, spanTable, asmPc, balanced, assembled, reassembled>>
mwVars == <<now, tracerReady, idleMs, lingerMs, SPAN_COUNTER, listeners,
            emitCount, mw, posts>>
chunkVars == <<chunkPc, chunkRid, chunkEvents, chunkPosts>>
\* the variables of the specifications other than the Assembler's and the
\* middleware's
busVars == <<busEntries, EMITTING, busEv, busIter, busInCb, busSeq, busSubs,
             busRecv, busActive, busRemovedIn, busIgnored, busThrew>>
dispVars == <<dispCfg, dispPc, dispEvents, dispInv, dispResult, dispHandlers,
              dispFired>>
alsVars == <<alsCfg, alsM, alsCur, alsCtl, alsRet>>
plugVars == <<plugSite, plugCode, plugDep, plugCalls>>
extVars == <<chunkVars, busVars, dispVars, alsVars, plugVars>>
vars == <<asmVars, mwVars, extVars>>

\* the variables of a specification that is not running
asmIdle ==
    /\ collected = <<>>
    /\ spanTable = <<>>
    /\ asmPc = "collect"
    /\ balanced = <<>>
    /\ assembled = <<>>
    /\ reassembled = <<>>

mwIdle ==
    /\ now = 0
    /\ tracerReady = FALSE
    /\ idleMs = 0
    /\ lingerMs = 0
    /\ SPAN_COUNTER = 0
    /\ listeners = {}
    /\ emitCount = 0
    /\ mw = <<>>
    /\ posts = <<>>

chunkIdle ==
    /\ chunkPc = "ready"
    /\ chunkRid = 0
    /\ chunkEvents = <<>>
    /\ chunkPosts = <<>>

busIdle ==
    /\ busEntries = <<>>
    /\ EMITTING = FALSE
    /\ busEv = 0
    /\ busIter = 0
    /\ busInCb = 0
    /\ busSeq = 0
    /\ busSubs = 0
    /\ busRecv = <<>>
    /\ busActive = <<>>
    /\ busRemovedIn = <<>>
    /\ busIgnored = {}
    /\ busThrew = {}

dispIdle ==
    /\ dispCfg = <<>>
    /\ dispPc = "start"
    /\ dispEvents = <<>>
    /\ dispInv = 0
    /\ dispResult = <<>>
    /\ dispHandlers = <<>>
    /\ dispFired = {}

alsIdle ==
    /\ alsCfg = <<>>
    /\ alsM = <<>>
    /\ alsCur = 0
    /\ alsCtl = <<>>
    /\ alsRet = <<>>

plugIdle ==
    /\ plugSite = <<>>
    /\ plugCode = <<>>
    /\ plugDep = "original"
    /\ plugCalls = <<>>

extIdle == chunkIdle /\ busIdle /\ dispIdle /\ alsIdle /\ plugIdle

\* ------------------------------------------------------------------------
\* Assembler specification: the listener collects the events of one scope,
\* then flushPayload balances and reorders them
\* ------------------------------------------------------------------------
AsmInit ==
    /\ collected = <<>>
    /\ spanTable = <<>>
    /\ asmPc = "collect"
    /\ balanced = <<>>
    /\ assembled = <<>>
    /\ reassembled = <<>>
    /\ now = 0
    /\ tracerReady = FALSE
    /\ idleMs = 0
    /\ lingerMs = 0
    /\ SPAN_COUNTER = 0
    /\ listeners = {}
    /\ emitCount = 0
    /\ mw = <<>>
    /\ posts = <<>>
    /\ extIdle

\* number of events emitted so far: the collected ones and the enters the
\* filter dropped
emittedCount ==
    Len(collected) + Len(spanTable)
    - Cardinality({i \in 1..Len(collected) : collected[i].type = "enter"})

\* trace.enter emits an enter: a fresh span id, the parent on top of the
\* span stack of the running context (any span opened so far, or none), the
\* depth of that context. keep = FALSE: shouldDropTraceEvent dropped it.
AsmEnter(fn, parent, keep) ==
    /\ asmPc = "collect"
    /\ Len(spanTable) < MaxSpans
    /\ emittedCount < MaxEvents
    /\ LET id == Len(spanTable) + 1
           depth == IF parent = Null THEN 1 ELSE spanTable[parent].depth + 1
       IN  /\ spanTable' = Append(spanTable,
                                  [fn |-> fn, parentId |-> parent, depth |-> depth])
           /\ collected' = IF keep
                           THEN Append(collected, EnterRecord(fn, depth, id, parent))
                           ELSE collected
    /\ UNCHANGED <<asmPc, balanced, assembled, reassembled>>
    /\ UNCHANGED <<mwVars, extVars>>

\* trace.exit emits an exit for the span it popped (possibly a second time,
\* possibly late)
AsmExit(id) ==
    /\ asmPc = "collect"
    /\ emittedCount < MaxEvents
    /\ collected' = Append(collected,
            ExitRecord(spanTable[id].fn, spanTable[id].depth, id, spanTable[id].parentId,
                       "v", FALSE, Undefined, FALSE))
    /\ UNCHANGED <<spanTable, asmPc, balanced, assembled, reassembled>>
    /\ UNCHANGED <<mwVars, extVars>>

\* trace.exit with an empty span stack: popSpan gives id null, depth 0
AsmExitNoSpan(fn) ==
    /\ asmPc = "collect"
    /\ emittedCount < MaxEvents
    /\ collected' = Append(collected,
            ExitRecord(fn, 0, Null, Null, "v", FALSE, Undefined, FALSE))
    /\ UNCHANGED <<spanTable, asmPc, balanced, assembled, reassembled>>
    /\ UNCHANGED <<mwVars, extVars>>

\* flushPayload: balancedEvents = reorderTraceEvents(balanceTraceEvents(events))
AsmFlush ==
    /\ asmPc = "collect"
    /\ balanced' = balanceTraceEvents(collected)
    /\ assembled' = reorderTraceEvents(balanceTraceEvents(collected))
    /\ asmPc' = "assembled"
    /\ UNCHANGED <<collected, spanTable, reassembled>>
    /\ UNCHANGED <<mwVars, extVars>>

AsmAgain ==
    /\ asmPc = "assembled"
    /\ reassembled' = assemble(assembled)
    /\ asmPc' = "again"
    /\ UNCHANGED <<collected, spanTable, balanced, assembled>>
    /\ UNCHANGED <<mwVars, extVars>>

AsmNext ==
    \/ \E fn \in Fns, parent \in {Null} \cup (1..Len(spanTable)), keep \in BOOLEAN :
          AsmEnter(fn, parent, keep)
    \/ \E id \in 1..Len(spanTable) : AsmExit(id)
    \/ \E fn \in Fns : AsmExitNoSpan(fn)
    \/ AsmFlush
    \/ AsmAgain

SpecAsm == AsmInit /\ [][AsmNext]_vars

\* ------------------------------------------------------------------------
\* Middleware specification: reproMiddleware serves the requests Reqs
\* ------------------------------------------------------------------------
\* the two requests R1 and R2 the middleware serves concurrently
Reqs == {1, 2}
\* Date.now() when the process starts serving: a positive number of ms
StartTime == 1
\* no pending timer (idleTimer / hardStopTimer = null)
NoTimer == -1
\* x-bug-request-start absent or not a number: readHeaderNumber gives null
NoHeader == -1
\* values of the x-bug-request-start header, parsed by readHeaderNumber
StartHeaders == {NoHeader, 7}
\* values of TRACE_IDLE_FLUSH_MS (> 0) and TRACE_LINGER_AFTER_FINISH_MS (>= 0)
IdleChoices == {10, 30}
LingerChoices == {0, 40}
TRACE_FLUSH_DELAY_MS == 20
TRACE_BATCH_SIZE == 100
\* the function the application runs in the middleware specification
AppFn == "f"

\* the trace id patchHttp gives the request: method, url and a random
\* suffix, never the string of a number
HttpTraceId(r) == 0 - r

\* chunkArray
RECURSIVE chunkFrom(_, _, _)

\* mutant of chunkFrom: the loop stops after the first batch
chunkFrom_firstBatchOnly(arr, size, i) ==
    <<SubSeq(arr, i, Min(i + size - 1, Len(arr)))>>

\* the for loop of chunkArray from index i on
chunkFrom(arr, size, i) ==
    IF i > Len(arr) THEN <<>>
    ELSE <<SubSeq(arr, i, Min(i + size - 1, Len(arr)))>>
         \o chunkFrom(arr, size, i + size)

chunkArray(arr, size) ==
    IF Len(arr) = 0 THEN <<>>
    ELSE IF size <= 0 THEN <<arr>>
    ELSE chunkFrom(arr, size, 1)

\* JSON.stringify of an event record: a key whose value is undefined is left
\* out; null, numbers, booleans and strings are written as they are
OptionalKeys == {"returnValue", "error"}
jsonStringifyEvent(ev) ==
    [k \in DOMAIN ev \ {o \in OptionalKeys : ev[o] = Undefined} |-> ev[k]]
\* JSON.stringify(batch)
jsonStringify(batch) == [i \in 1..Len(batch) |-> jsonStringifyEvent(batch[i])]

\* the payloads of the trace batches: trace, traceBatch {rid, index, total}
traceBatchPosts(r, rid, traceBatches) ==
    [i \in 1..Len(traceBatches) |->
        [kind |-> "traceBatch", req |-> r, rid |-> rid,
         index |-> i - 1, total |-> Len(traceBatches),
         trace |-> jsonStringify(traceBatches[i])]]

\* the closure state of a request the middleware has not seen yet
NewRequest ==
    [state |-> "new",           \* "new", "passed" (next() without capture), "captured"
     hasSid |-> FALSE,          \* the request carries x-bug-session-id
     hasAid |-> FALSE,          \* the request carries x-bug-action-id
     rid |-> Null,              \* scope id
     ctx |-> [traceId |-> Null, depth |-> 0, stack |-> <<>>],  \* the ALS store
     tidNow |-> Null,           \* the trace id the listener filters on
     resPatched |-> FALSE,      \* res.json/send/write/end replaced
     events |-> <<>>,
     flushed |-> FALSE,
     finished |-> FALSE,
     idleTimer |-> NoTimer,     \* deadline of the pending idle timer
     hardStopTimer |-> NoTimer, \* deadline of the pending timer the variable holds
     leakedHard |-> {},         \* deadlines of pending timers no variable holds
     finishCount |-> 0,
     finishedAt |-> NoTimer]    \* time of the first 'finish'

MwInit ==
    /\ collected = <<>>
    /\ spanTable = <<>>
    /\ asmPc = "collect"
    /\ balanced = <<>>
    /\ assembled = <<>>
    /\ reassembled = <<>>
    /\ now = StartTime
    /\ tracerReady \in BOOLEAN
    /\ idleMs \in IdleChoices
    /\ lingerMs \in LingerChoices
    /\ SPAN_COUNTER = 0
    /\ listeners = {}
    /\ emitCount = 0
    /\ mw = [r \in Reqs |-> NewRequest]
    /\ posts = <<>>
    /\ extIdle

\* hardDeadlineMs of the 'finish' handler
hardDeadlineMs == Max(0, Max(lingerMs, idleMs) + TRACE_FLUSH_DELAY_MS)

\* flushPayload: the request payload, then one payload per batch
flushPayload(r, q) ==
    LET \* reorderTraceEvents(balanceTraceEvents(events.slice())), each list
        \* bound to a name so that it is computed once
        balancedEvents ==
            CHOOSE out \in {reorderTraceEvents(b) :
                               b \in {balanceTraceEvents(e) : e \in {q.events}}} : TRUE
        traceBatches == chunkArray(balancedEvents, TRACE_BATCH_SIZE)
        requestPost == [kind |-> "request", req |-> r, rid |-> q.rid,
                        traceEmpty |-> (Len(traceBatches) = 0)]
        batchPosts == traceBatchPosts(r, q.rid, traceBatches)
    IN  <<requestPost>> \o batchPosts

\* mutant of doFlushState: flushed is not set
doFlushState_flagNotSet(q) ==
    IF q.flushed THEN q
    ELSE [q EXCEPT !.idleTimer = NoTimer, !.hardStopTimer = NoTimer]

\* doFlush applied to the closure state q of request r: the new closure state
doFlushState(q) ==
    IF q.flushed THEN q
    ELSE [q EXCEPT !.flushed = TRUE, !.idleTimer = NoTimer,
                   !.hardStopTimer = NoTimer]

\* doFlush: guard on flushed, clearTimers, unsubscribe, flushPayload
doFlush_stillSubscribed(r, q) ==
    /\ mw' = [mw EXCEPT ![r] = doFlushState(q)]
    /\ listeners' = listeners
    /\ posts' = IF q.flushed THEN posts ELSE posts \o flushPayload(r, q)

doFlush(r, q) ==
    /\ mw' = [mw EXCEPT ![r] = doFlushState(q)]
    /\ listeners' = IF q.flushed THEN listeners ELSE listeners \ {r}
    /\ posts' = IF q.flushed THEN posts ELSE posts \o flushPayload(r, q)

\* bumpIdle applied to the closure state q
bumpIdle(q) ==
    IF ~q.finished \/ q.flushed THEN q
    ELSE [q EXCEPT !.idleTimer = now + idleMs]

\* the capture of a tagged request: scope id, response taps, trace context,
\* subscription
capture(r, sid, aid, start) ==
    LET requestStartRaw == now
        clockSkewMs == IF start # NoHeader THEN start - requestStartRaw ELSE 0
        rid == IF start # NoHeader THEN start ELSE requestStartRaw + clockSkewMs
    IN  /\ mw' = [mw EXCEPT ![r].state = "captured",
                            ![r].hasSid = sid,
                            ![r].hasAid = aid,
                            ![r].rid = rid,
                            ![r].resPatched = TRUE,
                            ![r].ctx = IF tracerReady
                                       THEN [traceId |-> rid, depth |-> 0,
                                             stack |-> <<>>]
                                       ELSE @,
                            ![r].tidNow = IF tracerReady THEN rid ELSE Null]
        /\ listeners' = IF tracerReady THEN listeners \cup {r} ELSE listeners

\* if (!sid || !aid) return next(): the request passes through
passThrough(r, sid, aid) ==
    /\ mw' = [mw EXCEPT ![r].state = "passed",
                        ![r].hasSid = sid,
                        ![r].hasAid = aid,
                        ![r].ctx = IF tracerReady
                                   THEN [traceId |-> HttpTraceId(r),
                                         depth |-> 0, stack |-> <<>>]
                                   ELSE @]
    /\ UNCHANGED listeners

\* mutant of Request: only the session id header is required
Request_actionIdNotChecked(r, sid, aid, start) ==
    /\ mw[r].state = "new"
    /\ now - StartTime <= MaxTime
    /\ IF ~sid THEN passThrough(r, sid, aid) ELSE capture(r, sid, aid, start)
    /\ UNCHANGED <<now, tracerReady, idleMs, lingerMs, SPAN_COUNTER, emitCount, posts>>
    /\ UNCHANGED <<asmVars, extVars>>

\* the middleware function: a request arrives with or without the session
\* id header, the action id header and the request start header
Request(r, sid, aid, start) ==
    /\ mw[r].state = "new"
    /\ now - StartTime <= MaxTime
    /\ IF ~sid \/ ~aid THEN passThrough(r, sid, aid) ELSE capture(r, sid, aid, start)
    /\ UNCHANGED <<now, tracerReady, idleMs, lingerMs, SPAN_COUNTER, emitCount, posts>>
    /\ UNCHANGED <<asmVars, extVars>>

\* shouldDropTraceEvent with no disable rule configured (the default)
shouldDropTraceEvent(record) == FALSE

\* emit(ev): every subscribed listener runs; the listener of request l keeps
\* the event if it carries l's trace id and the filter does not drop it,
\* and bumps its idle timer. base is mw with the emitting context updated.
deliver(base, ev) ==
    [l \in Reqs |->
        IF /\ l \in listeners
           /\ ev.traceId = base[l].tidNow
           /\ ~shouldDropTraceEvent(ev.record)
        THEN bumpIdle([base[l] EXCEPT !.events = Append(@, ev.record)])
        ELSE base[l]]

\* the application, running in the context of request r, enters a function:
\* trace.enter
AppEnter(r) ==
    /\ tracerReady
    /\ mw[r].state # "new"
    /\ emitCount < MaxEmits
    /\ LET ctx == mw[r].ctx
           depth == ctx.depth + 1
           parentId == IF Len(ctx.stack) > 0 THEN ctx.stack[Len(ctx.stack)].id
                       ELSE Null
           span == [id |-> SPAN_COUNTER + 1, parentId |-> parentId, depth |-> depth]
           ev == [traceId |-> ctx.traceId,
                  record |-> EnterRecord(AppFn, depth, span.id, span.parentId)]
           base == [mw EXCEPT ![r].ctx = [ctx EXCEPT !.depth = depth,
                                                     !.stack = Append(@, span)]]
       IN  /\ SPAN_COUNTER' = SPAN_COUNTER + 1
           /\ mw' = deliver(base, ev)
    /\ emitCount' = emitCount + 1
    /\ UNCHANGED <<now, tracerReady, idleMs, lingerMs, listeners, posts>>
    /\ UNCHANGED <<asmVars, extVars>>

\* the application returns from the function on top of the span stack of
\* request r's context: trace.exit with a return value that is no thenable
AppExit(r) ==
    /\ tracerReady
    /\ mw[r].state # "new"
    /\ emitCount < MaxEmits
    /\ Len(mw[r].ctx.stack) > 0
    /\ LET ctx == mw[r].ctx
           span == ctx.stack[Len(ctx.stack)]
           ev == [traceId |-> ctx.traceId,
                  record |-> ExitRecord(AppFn, span.depth, span.id, span.parentId,
                                        "v", FALSE, Undefined, FALSE)]
           base == [mw EXCEPT ![r].ctx =
                        [ctx EXCEPT !.depth = Max(0, span.depth - 1),
                                    !.stack = SubSeq(@, 1, Len(@) - 1)]]
       IN  mw' = deliver(base, ev)
    /\ emitCount' = emitCount + 1
    /\ UNCHANGED <<now, tracerReady, idleMs, lingerMs, SPAN_COUNTER, listeners, posts>>
    /\ UNCHANGED <<asmVars, extVars>>

\* mutant of Finish: the hard-stop timer is not armed
Finish_noHardStopTimer(r) ==
    /\ mw[r].state = "captured"
    /\ mw[r].finishCount < MaxFinish
    /\ now - StartTime <= MaxTime
    /\ LET q0 == [mw[r] EXCEPT !.finished = TRUE,
                               !.finishCount = @ + 1,
                               !.finishedAt = IF @ = NoTimer THEN now ELSE @]
       IN  IF tracerReady
           THEN /\ mw' = [mw EXCEPT ![r] = bumpIdle(q0)]
                /\ UNCHANGED <<listeners, posts>>
           ELSE doFlush(r, q0)
    /\ UNCHANGED <<now, tracerReady, idleMs, lingerMs, SPAN_COUNTER, emitCount>>
    /\ UNCHANGED <<asmVars, extVars>>

\* the 'finish' handler of the response of request r
Finish(r) ==
    /\ mw[r].state = "captured"
    /\ mw[r].finishCount < MaxFinish
    /\ now - StartTime <= MaxTime
    /\ LET q0 == [mw[r] EXCEPT !.finished = TRUE,
                               !.finishCount = @ + 1,
                               !.finishedAt = IF @ = NoTimer THEN now ELSE @]
       IN  IF tracerReady
           THEN LET q1 == bumpIdle(q0)
                IN  /\ mw' = [mw EXCEPT ![r] =
                                [q1 EXCEPT !.hardStopTimer = now + hardDeadlineMs,
                                           !.leakedHard =
                                              IF q1.hardStopTimer # NoTimer
                                              THEN @ \cup {q1.hardStopTimer}
                                              ELSE @]]
                    /\ UNCHANGED <<listeners, posts>>
           ELSE doFlush(r, q0)
    /\ UNCHANGED <<now, tracerReady, idleMs, lingerMs, SPAN_COUNTER, emitCount>>
    /\ UNCHANGED <<asmVars, extVars>>

\* the idle timer of request r expires: doFlush
IdleFire(r) ==
    /\ mw[r].idleTimer # NoTimer
    /\ mw[r].idleTimer <= now
    /\ doFlush(r, [mw[r] EXCEPT !.idleTimer = NoTimer])
    /\ UNCHANGED <<now, tracerReady, idleMs, lingerMs, SPAN_COUNTER, emitCount>>
    /\ UNCHANGED <<asmVars, extVars>>

\* the hard-stop timer the variable holds expires: doFlush
HardFire(r) ==
    /\ mw[r].hardStopTimer # NoTimer
    /\ mw[r].hardStopTimer <= now
    /\ doFlush(r, [mw[r] EXCEPT !.hardStopTimer = NoTimer])
    /\ UNCHANGED <<now, tracerReady, idleMs, lingerMs, SPAN_COUNTER, emitCount>>
    /\ UNCHANGED <<asmVars, extVars>>

\* a hard-stop timer armed by an earlier 'finish' and overwritten by a
\* later one expires: doFlush
LeakedFire(r) ==
    /\ \E d \in mw[r].leakedHard :
          /\ d <= now
          /\ doFlush(r, [mw[r] EXCEPT !.leakedHard = @ \ {d}])
    /\ UNCHANGED <<now, tracerReady, idleMs, lingerMs, SPAN_COUNTER, emitCount>>
    /\ UNCHANGED <<asmVars, extVars>>

\* the deadlines of all pending timers
pendingDeadlines ==
    UNION {({mw[r].idleTimer, mw[r].hardStopTimer} \ {NoTimer})
             \cup mw[r].leakedHard : r \in Reqs}

\* time passes: no timer is due, and the clock does not pass a deadline
Tick ==
    /\ \A d \in pendingDeadlines : d > now
    /\ pendingDeadlines # {} \/ now - StartTime < MaxTime
    /\ now' = IF pendingDeadlines = {} THEN now + TickMs
              ELSE Min(now + TickMs, SetMin(pendingDeadlines))
    /\ UNCHANGED <<tracerReady, idleMs, lingerMs, SPAN_COUNTER, listeners,
                   emitCount, mw, posts>>
    /\ UNCHANGED <<asmVars, extVars>>

MwNext ==
    \/ \E r \in Reqs, sid \in BOOLEAN, aid \in BOOLEAN, start \in StartHeaders :
          Request(r, sid, aid, start)
    \/ \E r \in Reqs : AppEnter(r)
    \/ \E r \in Reqs : AppExit(r)
    \/ \E r \in Reqs : Finish(r)
    \/ \E r \in Reqs : IdleFire(r)
    \/ \E r \in Reqs : HardFire(r)
    \/ \E r \in Reqs : LeakedFire(r)
    \/ Tick

SpecMw == MwInit /\ [][MwNext]_vars

\* ------------------------------------------------------------------------
\* Flush specification: the middleware serves one request, R1; the event
\* loop runs every timer that is due, and time passes
\* ------------------------------------------------------------------------
R1 == CHOOSE r \in Reqs : \A q \in Reqs : r <= q

FlushNext ==
    \/ \E sid \in BOOLEAN, aid \in BOOLEAN, start \in StartHeaders :
          Request(R1, sid, aid, start)
    \/ AppEnter(R1)
    \/ AppExit(R1)
    \/ Finish(R1)
    \/ IdleFire(R1)
    \/ HardFire(R1)
    \/ LeakedFire(R1)
    \/ Tick

FlushFairness ==
    /\ WF_vars(Tick)
    /\ WF_vars(IdleFire(R1))
    /\ WF_vars(HardFire(R1))
    /\ WF_vars(LeakedFire(R1))

SpecFlush == MwInit /\ [][FlushNext]_vars /\ FlushFairness

\* ------------------------------------------------------------------------
\* Chunking specification: flushPayload splits the assembled trace of calls
\* sequential calls of AppFn into batches and posts them
\* ------------------------------------------------------------------------
\* the assembled trace of n sequential calls: enter, exit of spans 1..n
CallTrace(n) ==
    [i \in 1..(2 * n) |->
        IF i % 2 = 1
        THEN EnterRecord(AppFn, 1, (i + 1) \div 2, Null)
        ELSE ExitRecord(AppFn, 1, i \div 2, Null, "v", FALSE, Undefined, FALSE)]

ChunkInit ==
    /\ asmIdle
    /\ mwIdle
    /\ chunkPc = "ready"
    /\ chunkRid \in (StartHeaders \ {NoHeader}) \cup {StartTime}
    /\ \E calls \in 0..MaxCalls : chunkEvents = CallTrace(calls)
    /\ chunkPosts = <<>>
    /\ busIdle
    /\ dispIdle
    /\ alsIdle
    /\ plugIdle

\* flushPayload, the trace batches: chunkArray, one post per batch
ChunkFlush ==
    /\ chunkPc = "ready"
    /\ chunkPosts' = traceBatchPosts(R1, chunkRid,
                                     chunkArray(chunkEvents, TRACE_BATCH_SIZE))
    /\ chunkPc' = "flushed"
    /\ UNCHANGED <<chunkRid, chunkEvents>>
    /\ UNCHANGED <<asmVars, mwVars, busVars, dispVars, alsVars, plugVars>>

ChunkNext == ChunkFlush

SpecChunk == ChunkInit /\ [][ChunkNext]_vars

\* ------------------------------------------------------------------------
\* Event bus specification: trace.on, the unsubscribe functions it returns,
\* and emit, whose loop calls listeners that subscribe, unsubscribe, emit or
\* throw while they run
\* ------------------------------------------------------------------------
\* the listener functions
Subs == {1, 2, 3}

BusInit ==
    /\ asmIdle
    /\ mwIdle
    /\ chunkIdle
    /\ dispIdle
    /\ alsIdle
    /\ plugIdle
    /\ busEntries = <<>>
    /\ EMITTING = FALSE
    /\ busEv = Null
    /\ busIter = 0
    /\ busInCb = Null
    /\ busSeq = 0
    /\ busSubs = 0
    /\ busRecv = [l \in Subs |-> <<>>]
    /\ busActive = [l \in Subs |-> FALSE]
    /\ busRemovedIn = [l \in Subs |-> Null]
    /\ busIgnored = {}
    /\ busThrew = {}

\* the code that calls the bus: the application when no emit is running, the
\* running listener otherwise
busCaller(l) == IF EMITTING THEN busInCb # Null ELSE TRUE

\* the entries of the Set that are not deleted
liveEntries(entries) == {entries[i] : i \in 1..Len(entries)} \ {Null}

\* listeners.add(fn): nothing if fn is in the Set, else a new last entry
setAdd(entries, fn) ==
    IF fn \in liveEntries(entries) THEN entries ELSE Append(entries, fn)

\* mutant of setDelete: the entry stays
setDelete_entryKept(entries, fn) == entries

\* listeners.delete(fn): the entry of fn is emptied; a running iterator
\* passes over it
setDelete(entries, fn) ==
    [i \in 1..Len(entries) |-> IF entries[i] = fn THEN Null ELSE entries[i]]

\* trace.on(fn)
BusOn(l) ==
    /\ busCaller(l)
    /\ busSubs < MaxBusSubs
    /\ busSubs' = busSubs + 1
    /\ busEntries' = setAdd(busEntries, l)
    /\ busActive' = [busActive EXCEPT ![l] = TRUE]
    /\ busRemovedIn' = [busRemovedIn EXCEPT ![l] = Null]
    /\ UNCHANGED <<EMITTING, busEv, busIter, busInCb, busSeq, busRecv, busIgnored>>
    /\ UNCHANGED busThrew
    /\ UNCHANGED <<asmVars, mwVars, chunkVars, dispVars, alsVars, plugVars>>

\* the function trace.on(fn) returned is called
BusOff(l) ==
    /\ busCaller(l)
    /\ busActive[l]
    /\ busEntries' = setDelete(busEntries, l)
    /\ busActive' = [busActive EXCEPT ![l] = FALSE]
    /\ busRemovedIn' = [busRemovedIn EXCEPT ![l] = busEv]
    /\ UNCHANGED <<EMITTING, busEv, busIter, busInCb, busSeq, busSubs, busRecv,
                   busIgnored>>
    /\ UNCHANGED busThrew
    /\ UNCHANGED <<asmVars, mwVars, chunkVars, dispVars, alsVars, plugVars>>

\* emit(ev) called by the application, no listener is running: if
\* (EMITTING) return; else EMITTING = true and the loop starts
BusEmit ==
    /\ busInCb = Null
    /\ busEv = Null
    /\ busSeq < MaxBusEmits
    /\ busSeq' = busSeq + 1
    /\ IF EMITTING
       THEN /\ busIgnored' = busIgnored \cup {busSeq + 1}
            /\ UNCHANGED <<EMITTING, busEv, busIter, busEntries>>
       ELSE /\ EMITTING' = TRUE
            /\ busEv' = busSeq + 1
            /\ busIter' = 1
            /\ busEntries' = SelectSeq(busEntries, LAMBDA x : x # Null)
            /\ UNCHANGED busIgnored
    /\ UNCHANGED <<busInCb, busSubs, busRecv, busActive, busRemovedIn>>
    /\ UNCHANGED busThrew
    /\ UNCHANGED <<asmVars, mwVars, chunkVars, dispVars, alsVars, plugVars>>

\* mutant of emitWhileEmitting: the event is delivered to every listener
emitWhileEmitting_delivered(recv, ev) ==
    [l \in Subs |-> IF l \in liveEntries(busEntries)
                    THEN Append(recv[l], ev) ELSE recv[l]]

\* emit(ev) while EMITTING: if (EMITTING) return
emitWhileEmitting(recv, ev) == recv

\* mutant of BusEmitInListener: emit calls the running listener again
BusEmitInListener_recurses ==
    /\ EMITTING
    /\ busInCb # Null
    /\ busSeq < MaxBusEmits
    /\ busSeq' = busSeq + 1
    /\ busIgnored' = busIgnored \cup {busSeq + 1}
    /\ busRecv' = [busRecv EXCEPT ![busInCb] = Append(@, busSeq + 1)]
    /\ UNCHANGED <<busEntries, EMITTING, busEv, busIter, busInCb, busSubs,
                   busActive, busRemovedIn>>
    /\ UNCHANGED busThrew
    /\ UNCHANGED <<asmVars, mwVars, chunkVars, dispVars, alsVars, plugVars>>

\* the running listener enters or leaves a traced function: emit(ev) while
\* EMITTING
BusEmitInListener ==
    /\ EMITTING
    /\ busInCb # Null
    /\ busSeq < MaxBusEmits
    /\ busSeq' = busSeq + 1
    /\ busIgnored' = busIgnored \cup {busSeq + 1}
    /\ busRecv' = emitWhileEmitting(busRecv, busSeq + 1)
    /\ UNCHANGED <<busEntries, EMITTING, busEv, busIter, busInCb, busSubs,
                   busActive, busRemovedIn>>
    /\ UNCHANGED busThrew
    /\ UNCHANGED <<asmVars, mwVars, chunkVars, dispVars, alsVars, plugVars>>

\* the positions the iterator has not passed whose entry is not deleted
pendingPositions ==
    {i \in busIter..Len(busEntries) : busEntries[i] # Null}

\* for (const l of listeners) l(ev): the iterator moves to the next entry
\* that is not deleted and the listener is called
BusCall ==
    /\ EMITTING
    /\ busEv # Null
    /\ busInCb = Null
    /\ pendingPositions # {}
    /\ LET i == SetMin(pendingPositions)
       IN  /\ busIter' = i + 1
           /\ busInCb' = busEntries[i]
           /\ busRecv' = [busRecv EXCEPT ![busEntries[i]] = Append(@, busEv)]
    /\ UNCHANGED <<busEntries, EMITTING, busEv, busSeq, busSubs, busActive,
                   busRemovedIn, busIgnored>>
    /\ UNCHANGED busThrew
    /\ UNCHANGED <<asmVars, mwVars, chunkVars, dispVars, alsVars, plugVars>>

\* the running listener returns
BusReturn ==
    /\ EMITTING
    /\ busInCb # Null
    /\ busInCb' = Null
    /\ UNCHANGED <<busEntries, EMITTING, busEv, busIter, busSeq, busSubs, busRecv,
                   busActive, busRemovedIn, busIgnored>>
    /\ UNCHANGED busThrew
    /\ UNCHANGED <<asmVars, mwVars, chunkVars, dispVars, alsVars, plugVars>>

\* the running listener throws: the loop is left, finally EMITTING = false
BusThrow_guardLeftSet ==
    /\ EMITTING
    /\ busInCb # Null
    /\ busInCb' = Null
    /\ EMITTING' = EMITTING
    /\ busEv' = Null
    /\ busIter' = 0
    /\ busThrew' = busThrew \cup {busEv}
    /\ UNCHANGED <<busEntries, busSeq, busSubs, busRecv, busActive, busRemovedIn,
                   busIgnored>>
    /\ UNCHANGED <<asmVars, mwVars, chunkVars, dispVars, alsVars, plugVars>>

BusThrow ==
    /\ EMITTING
    /\ busInCb # Null
    /\ busInCb' = Null
    /\ EMITTING' = FALSE
    /\ busEv' = Null
    /\ busIter' = 0
    /\ busThrew' = busThrew \cup {busEv}
    /\ UNCHANGED <<busEntries, busSeq, busSubs, busRecv, busActive, busRemovedIn,
                   busIgnored>>
    /\ UNCHANGED <<asmVars, mwVars, chunkVars, dispVars, alsVars, plugVars>>

\* the iterator is at the end of the Set: finally EMITTING = false
BusDone ==
    /\ EMITTING
    /\ busEv # Null
    /\ busInCb = Null
    /\ pendingPositions = {}
    /\ EMITTING' = FALSE
    /\ busEv' = Null
    /\ busIter' = 0
    /\ UNCHANGED <<busEntries, busInCb, busSeq, busSubs, busRecv, busActive,
                   busRemovedIn, busIgnored>>
    /\ UNCHANGED busThrew
    /\ UNCHANGED <<asmVars, mwVars, chunkVars, dispVars, alsVars, plugVars>>

BusNext ==
    \/ \E l \in Subs : BusOn(l)
    \/ \E l \in Subs : BusOff(l)
    \/ BusEmit
    \/ BusEmitInListener
    \/ BusCall
    \/ BusReturn
    \/ BusThrow
    \/ BusDone

SpecBus == BusInit /\ [][BusNext]_vars

\* ------------------------------------------------------------------------
\* Dispatcher specification: one awaited call g(...) goes through
\* __repro_call. With a scope active the caller is the app function f, whose
\* body is "return await g()" and carries the injected enter / try / catch /
\* finally exit; without a scope the caller is untracked code.
\* ------------------------------------------------------------------------
\* what fn is: undefined, an object that is no function, a function marked
\* skip-wrap, a function whose body emits enter/exit and that is marked
\* body-traced, any other function
FnKinds == {"undefined", "object", "skipWrap", "bodyTraced", "plain"}
\* what an invocation of fn does
Behaviours == {"ret", "throw", "thenable"}
\* what the thenable fn returns does: it calls the success continuation with
\* a value, the failure continuation, both, the success continuation with
\* another thenable, or its then() throws
Modes == {"fulfil", "reject", "both", "nested", "thenThrows"}
\* __repro_call invokes fn at most three times
Invocations == 1..3

DispCfgs ==
    [fnKind : FnKinds, scope : BOOLEAN, sameError : BOOLEAN,
     beh : [Invocations -> Behaviours], mode : Modes]

\* values: what invocation i returns, throws, the thenable it returns, the
\* thenable that one resolves to and its value
UndefinedValue == <<"undefined", 0>>
TypeError == <<"TypeError", 0>>
ThenError == <<"thenError", 0>>
ValueOf(i) == <<"v", i>>
ErrorOf(cfg, i) == IF cfg.sameError THEN <<"E", 1>> ELSE <<"E", i>>
ThenableOf(i) == <<"T", i>>
InnerOf(i) == <<"U", i>>
InnerValueOf(i) == <<"w", i>>
RejectionOf(i) == <<"R", i>>

isThenable(v) == v[1] \in {"T", "U"}

\* how thenable th settles
modeOf(cfg, th) == IF th[1] = "T" THEN cfg.mode ELSE "fulfil"
\* the value th calls its success continuation with
settleValue(cfg, th) ==
    IF th[1] = "U" THEN InnerValueOf(th[2])
    ELSE IF cfg.mode = "nested" THEN InnerOf(th[2])
    ELSE ValueOf(th[2])

Returned(v) == [kind |-> "return", val |-> v]
Thrown(e) == [kind |-> "throw", val |-> e]

\* the event trace.enter emits
DispEnter(fn, by, inv) ==
    [type |-> "enter", fn |-> fn, by |-> by, inv |-> inv,
     returnValue |-> UndefinedValue, threw |-> FALSE, error |-> UndefinedValue]
\* the event emitExit emits
DispExit(fn, by, inv, rv, threw, err) ==
    [type |-> "exit", fn |-> fn, by |-> by, inv |-> inv,
     returnValue |-> rv, threw |-> threw, error |-> err]

\* a continuation attached with then(): owner "exit" is finalize of
\* trace.exit, "disp" finalize of invokeWithTrace, "await" the await of f
Handler(owner, th, fn, by, inv) ==
    [owner |-> owner, on |-> th, fn |-> fn, by |-> by, inv |-> inv,
     settled |-> FALSE]

\* trace.exit(meta, detail): the exit is emitted now, unless the return
\* value is a thenable: then finalize is attached to it, and emits the exit
\* now only if then() throws
traceExit(cfg, fn, by, inv, rv, threw, err) ==
    IF ~threw /\ isThenable(rv)
    THEN IF modeOf(cfg, rv) = "thenThrows"
         THEN [evs |-> <<DispExit(fn, by, inv, UndefinedValue, TRUE, ThenError)>>,
               hs |-> <<>>]
         ELSE [evs |-> <<>>, hs |-> <<Handler("exit", rv, fn, by, inv)>>]
    ELSE [evs |-> <<DispExit(fn, by, inv, rv, threw, err)>>, hs |-> <<>>]

\* what invocation i of fn gives: a value, a thenable or an exception
outcomeOf(cfg, i) ==
    CASE cfg.beh[i] = "ret" -> Returned(ValueOf(i))
      [] cfg.beh[i] = "throw" -> Thrown(ErrorOf(cfg, i))
      [] cfg.beh[i] = "thenable" -> Returned(ThenableOf(i))

\* fn.apply(thisArg, args), invocation i: a body-traced function emits its
\* enter, runs, and emits its exit in the finally of the injected try
apply(cfg, i) ==
    LET out == outcomeOf(cfg, i)
    IN  IF cfg.fnKind = "bodyTraced"
        THEN LET x == traceExit(cfg, "g", "body", i,
                                IF out.kind = "return" THEN out.val
                                ELSE UndefinedValue,
                                out.kind = "throw",
                                IF out.kind = "throw" THEN out.val
                                ELSE UndefinedValue)
             IN  [evs |-> <<DispEnter("g", "body", i)>> \o x.evs,
                  hs |-> x.hs, res |-> out, inv |-> i]
        ELSE [evs |-> <<>>, hs |-> <<>>, res |-> out, inv |-> i]

\* a, and if a threw then b
orElse(a, b) ==
    IF a.res.kind = "throw"
    THEN [evs |-> a.evs \o b.evs, hs |-> a.hs \o b.hs, res |-> b.res,
          inv |-> b.inv]
    ELSE a

\* mutant of invokeWithTrace: the caller gets the promise of out.then(...)
invokeWithTrace_returnsChained(cfg) ==
    LET a == apply(cfg, 1)
        out == a.res
    IN  [evs |-> <<DispEnter("g", "dispatcher", 1)>> \o a.evs,
         hs |-> a.hs,
         res |-> IF out.kind = "return" /\ isThenable(out.val)
                 THEN Returned(InnerOf(1)) ELSE out,
         inv |-> 1]

\* invokeWithTrace, invocation 1: trace.enter, fn.apply, then the exit now,
\* or finalize attached to the thenable, or the exit with threw and the
\* exception thrown again
invokeWithTrace(cfg) ==
    LET a == apply(cfg, 1)
        out == a.res
        x == IF out.kind = "throw"
             THEN traceExit(cfg, "g", "dispatcher", 1, UndefinedValue, TRUE, out.val)
             ELSE IF isThenable(out.val)
             THEN IF modeOf(cfg, out.val) = "thenThrows"
                  THEN traceExit(cfg, "g", "dispatcher", 1, UndefinedValue, TRUE,
                                 ThenError)
                  ELSE [evs |-> <<>>,
                        hs |-> <<Handler("disp", out.val, "g", "dispatcher", 1)>>]
             ELSE traceExit(cfg, "g", "dispatcher", 1, out.val, FALSE, UndefinedValue)
    IN  [evs |-> <<DispEnter("g", "dispatcher", 1)>> \o a.evs \o x.evs,
         hs |-> a.hs \o x.hs, res |-> out, inv |-> 1]

\* typeof fn !== 'function' || fn[SYM_SKIP_WRAP], or no store
invokesDirectly(cfg) ==
    cfg.fnKind \in {"undefined", "object", "skipWrap"} \/ ~cfg.scope

\* __repro_call: the whole call, with the catch clauses that invoke fn again
reproCall(cfg) ==
    LET nothing == [evs |-> <<>>, hs |-> <<>>, res |-> Thrown(TypeError), inv |-> 0]
    IN  IF cfg.fnKind = "undefined"
        THEN [nothing EXCEPT !.res = Returned(UndefinedValue)]
        ELSE IF cfg.fnKind = "object"
        THEN nothing
        ELSE IF invokesDirectly(cfg)
        THEN IF cfg.fnKind # "skipWrap" /\ ~cfg.scope
             THEN orElse(apply(cfg, 1), orElse(apply(cfg, 2), apply(cfg, 3)))
             ELSE orElse(apply(cfg, 1), apply(cfg, 2))
        ELSE IF cfg.fnKind = "bodyTraced"
        THEN orElse(apply(cfg, 1), apply(cfg, 2))
        ELSE orElse(invokeWithTrace(cfg), apply(cfg, 2))

DispInit ==
    /\ asmIdle
    /\ mwIdle
    /\ chunkIdle
    /\ busIdle
    /\ alsIdle
    /\ plugIdle
    /\ dispCfg \in DispCfgs
    /\ dispPc = "start"
    /\ dispEvents = <<>>
    /\ dispInv = 0
    /\ dispResult = [kind |-> "none", val |-> UndefinedValue]
    /\ dispHandlers = <<>>
    /\ dispFired = {}

\* the caller starts: f emits its enter
CallerEnter ==
    /\ dispPc = "start"
    /\ dispPc' = "entered"
    /\ dispEvents' = IF dispCfg.scope THEN <<DispEnter("f", "body", 1)>> ELSE <<>>
    /\ UNCHANGED <<dispCfg, dispInv, dispResult, dispHandlers, dispFired>>
    /\ UNCHANGED <<asmVars, mwVars, chunkVars, busVars, alsVars, plugVars>>

\* the caller calls __repro_call(g, ...); f awaits what it returns, or, if
\* it throws, emits its exit with the exception and throws it
Call ==
    /\ dispPc = "entered"
    /\ LET c == reproCall(dispCfg)
           r == c.res
       IN  /\ dispInv' = c.inv
           /\ dispResult' = r
           /\ IF ~dispCfg.scope
              THEN /\ dispPc' = "done"
                   /\ dispEvents' = dispEvents \o c.evs
                   /\ dispHandlers' = c.hs
              ELSE IF r.kind = "throw"
              THEN /\ dispPc' = "done"
                   /\ dispEvents' = dispEvents \o c.evs
                         \o <<DispExit("f", "body", 1, UndefinedValue, TRUE, r.val)>>
                   /\ dispHandlers' = c.hs
              ELSE IF ~isThenable(r.val)
              THEN /\ dispPc' = "resume"
                   /\ dispEvents' = dispEvents \o c.evs
                   /\ dispHandlers' = c.hs
              ELSE IF modeOf(dispCfg, r.val) = "thenThrows"
              THEN /\ dispPc' = "done"
                   /\ dispEvents' = dispEvents \o c.evs
                         \o <<DispExit("f", "body", 1, UndefinedValue, TRUE, ThenError)>>
                   /\ dispHandlers' = c.hs
              ELSE /\ dispPc' = "awaiting"
                   /\ dispEvents' = dispEvents \o c.evs
                   /\ dispHandlers' = c.hs \o <<Handler("await", r.val, "f", "body", 1)>>
    /\ UNCHANGED <<dispCfg, dispFired>>
    /\ UNCHANGED <<asmVars, mwVars, chunkVars, busVars, alsVars, plugVars>>

\* f resumes after the await of a value that is no thenable and returns it
Resume ==
    /\ dispPc = "resume"
    /\ dispPc' = "done"
    /\ dispEvents' = Append(dispEvents,
                            DispExit("f", "body", 1, dispResult.val, FALSE, UndefinedValue))
    /\ UNCHANGED <<dispCfg, dispInv, dispResult, dispHandlers, dispFired>>
    /\ UNCHANGED <<asmVars, mwVars, chunkVars, busVars, alsVars, plugVars>>

\* mutant of finalizeSettled: the continuation runs again
finalizeSettled_notChecked(h) == FALSE

\* if (settled) return value
finalizeSettled(h) == h.settled

\* thenable th calls the continuations attached to it, from the k-th on:
\* way is "fulfil" (with settleValue) or "reject"
RECURSIVE runHandlers(_, _, _, _, _)
runHandlers(cfg, th, way, k, acc) ==
    IF k > Len(acc.hs) THEN acc
    ELSE LET h == acc.hs[k]
             val == IF way = "fulfil" THEN settleValue(cfg, th) ELSE UndefinedValue
             threw == way = "reject"
             err == IF threw THEN RejectionOf(th[2]) ELSE UndefinedValue
             marked == [acc.hs EXCEPT ![k].settled = TRUE]
         IN  IF h.on # th \/ k > acc.last \/ finalizeSettled(h)
             THEN runHandlers(cfg, th, way, k + 1, acc)
             ELSE IF h.owner = "disp"
             THEN LET x == traceExit(cfg, h.fn, h.by, h.inv, val, threw, err)
                  IN  runHandlers(cfg, th, way, k + 1,
                          [acc EXCEPT !.hs = marked \o x.hs,
                                      !.evs = @ \o x.evs])
             ELSE IF h.owner = "exit"
             THEN runHandlers(cfg, th, way, k + 1,
                      [acc EXCEPT !.hs = marked,
                                  !.evs = Append(@, DispExit(h.fn, h.by, h.inv,
                                                             val, threw, err))])
             ELSE IF ~threw /\ isThenable(val)
             THEN runHandlers(cfg, th, way, k + 1,
                      [acc EXCEPT !.hs = Append(marked,
                                     Handler("await", val, h.fn, h.by, h.inv))])
             ELSE runHandlers(cfg, th, way, k + 1,
                      [acc EXCEPT !.hs = marked,
                                  !.evs = Append(@, DispExit(h.fn, h.by, h.inv,
                                                             val, threw, err)),
                                  !.done = TRUE])

\* the thenables that exist: the ones the invocations returned, and the
\* ones they called their success continuation with
thenables ==
    {ThenableOf(i) : i \in {j \in 1..dispInv : dispCfg.beh[j] = "thenable"}}
    \cup {InnerOf(f[1][2]) : f \in {g \in dispFired :
                g[1][1] = "T" /\ g[2] = "fulfil" /\ dispCfg.mode = "nested"}}

waysOf(cfg, th) ==
    CASE modeOf(cfg, th) \in {"fulfil", "nested"} -> {"fulfil"}
      [] modeOf(cfg, th) = "reject" -> {"reject"}
      [] modeOf(cfg, th) = "both" -> {"fulfil", "reject"}
      [] modeOf(cfg, th) = "thenThrows" -> {}

\* thenable th settles: it calls the continuations attached to it
Settle(th, way) ==
    /\ dispPc \in {"resume", "awaiting", "done"}
    /\ th \in thenables
    /\ way \in waysOf(dispCfg, th)
    /\ <<th, way>> \notin dispFired
    /\ dispFired' = dispFired \cup {<<th, way>>}
    /\ LET acc == runHandlers(dispCfg, th, way, 1,
                              [hs |-> dispHandlers, evs |-> dispEvents,
                               done |-> FALSE, last |-> Len(dispHandlers)])
       IN  /\ dispHandlers' = acc.hs
           /\ dispEvents' = acc.evs
           /\ dispPc' = IF acc.done THEN "done" ELSE dispPc
    /\ UNCHANGED <<dispCfg, dispInv, dispResult>>
    /\ UNCHANGED <<asmVars, mwVars, chunkVars, busVars, alsVars, plugVars>>

DispNext ==
    \/ CallerEnter
    \/ Call
    \/ Resume
    \/ \E i \in Invocations, k \in {"T", "U"}, way \in {"fulfil", "reject"} :
          Settle(<<k, i>>, way)

SpecDisp == DispInit /\ [][DispNext]_vars

\* ------------------------------------------------------------------------
\* Transport specification: flushPayload hands the request payload and one
\* payload per trace batch to post(), which calls fetch once and swallows
\* what fetch throws and the rejection of its promise
\* ------------------------------------------------------------------------
\* what the fetch of one post does: it throws, its promise is rejected, its
\* promise is fulfilled
FetchOutcomes == {"throws", "rejects", "fulfils"}

\* numbers of calls in the traces of the transport specification: no batch,
\* two batches, three batches
PostCalls == {0, MaxCalls \div 2, MaxCalls}

\* the payloads of one flushPayload: the request, then the trace batches
postBodies(rid, events) ==
    LET traceBatches == chunkArray(events, TRACE_BATCH_SIZE)
    IN  <<[kind |-> "request", req |-> R1, rid |-> rid,
           traceEmpty |-> (Len(traceBatches) = 0)]>>
        \o traceBatchPosts(R1, rid, traceBatches)

\* post(..., body) up to its await: fetch is called once; if it throws,
\* the catch clause swallows the exception and the promise of post is
\* fulfilled, else post waits for the promise of fetch
startPost(body, outcome) ==
    [body |-> body, fetchCalls |-> 1, fetch |-> outcome,
     promise |-> IF outcome = "throws" THEN "fulfilled" ELSE "pending"]

\* mutant of settlePost: post has no catch clause
settlePost_noCatch(p) ==
    [p EXCEPT !.promise = IF p.fetch = "rejects" THEN "rejected"
                          ELSE "fulfilled"]

\* post after its await: the rejection is swallowed, nothing is sent again
settlePost(p) == [p EXCEPT !.promise = "fulfilled"]

PostInit ==
    /\ asmIdle
    /\ mwIdle
    /\ busIdle
    /\ dispIdle
    /\ alsIdle
    /\ plugIdle
    /\ chunkPc = "ready"
    /\ chunkRid \in (StartHeaders \ {NoHeader}) \cup {StartTime}
    /\ \E calls \in PostCalls : chunkEvents = CallTrace(calls)
    /\ chunkPosts = <<>>

\* flushPayload: one call of post per payload, none of them awaited
PostFlush ==
    /\ chunkPc = "ready"
    /\ LET bodies == postBodies(chunkRid, chunkEvents)
       IN  \E outcome \in [1..Len(bodies) -> FetchOutcomes] :
              chunkPosts' = [i \in 1..Len(bodies) |->
                                startPost(bodies[i], outcome[i])]
    /\ chunkPc' = "flushed"
    /\ UNCHANGED <<chunkRid, chunkEvents>>
    /\ UNCHANGED <<asmVars, mwVars, busVars, dispVars, alsVars, plugVars>>

\* the promise of the fetch of post i settles
PostSettle(i) ==
    /\ chunkPc = "flushed"
    /\ i \in 1..Len(chunkPosts)
    /\ chunkPosts[i].promise = "pending"
    /\ chunkPosts' = [chunkPosts EXCEPT ![i] = settlePost(@)]
    /\ UNCHANGED <<chunkPc, chunkRid, chunkEvents>>
    /\ UNCHANGED <<asmVars, mwVars, busVars, dispVars, alsVars, plugVars>>

PostNext ==
    \/ PostFlush
    \/ \E i \in 1..Len(chunkPosts) : PostSettle(i)

SpecPost == PostInit /\ [][PostNext]_vars

\* ------------------------------------------------------------------------
\* Guarded dispatcher specification: the call of the dispatcher
\* specification with the seventh argument of __repro_call (un-awaited) and
\* with a listener that throws when the dispatcher emits an event
\* ------------------------------------------------------------------------
\* where the dispatcher's own logic fails: nowhere, in its trace.enter, in
\* its first trace.exit (emit has no catch clause: what a listener throws
\* comes out of trace.enter and trace.exit)
Failures == {"none", "enter", "exit"}
ListenerError == <<"listenerError", 0>>

\* the dispatcher emits events of its own only for a function without the
\* body-traced mark called in an active scope
GuardCfgs ==
    {c \in [fnKind : FnKinds, scope : BOOLEAN, sameError : BOOLEAN,
            beh : [Invocations -> Behaviours], mode : Modes,
            unawaited : BOOLEAN, fail : Failures] :
        c.fail # "none" => c.scope /\ c.fnKind = "plain"}

\* invokeWithTrace when its trace.exit throws: for a value, runExit throws,
\* the catch clause of invokeWithTrace calls trace.exit with the error and
\* throws it again; for an exception of fn, the trace.exit of that catch
\* clause throws; for a thenable, trace.exit is called when it settles
exitFails(cfg) ==
    LET a == apply(cfg, 1)
        out == a.res
        enter == <<DispEnter("g", "dispatcher", 1)>>
    IN  IF out.kind = "throw"
        THEN [evs |-> enter \o a.evs
                      \o <<DispExit("g", "dispatcher", 1, UndefinedValue, TRUE,
                                    out.val)>>,
              hs |-> a.hs, res |-> Thrown(ListenerError), inv |-> 1]
        ELSE IF isThenable(out.val)
        THEN invokeWithTrace(cfg)
        ELSE [evs |-> enter \o a.evs
                      \o <<DispExit("g", "dispatcher", 1, out.val, FALSE,
                                    UndefinedValue),
                           DispExit("g", "dispatcher", 1, UndefinedValue, TRUE,
                                    ListenerError)>>,
              hs |-> a.hs, res |-> Thrown(ListenerError), inv |-> 1]

\* mutant of guardedCall: no catch clause around the dispatcher
guardedCall_noCatch(cfg) ==
    CASE cfg.fail = "none" -> reproCall(cfg)
      [] cfg.fail = "enter" ->
            [evs |-> <<DispEnter("g", "dispatcher", 1)>>, hs |-> <<>>,
             res |-> Thrown(ListenerError), inv |-> 0]
      [] cfg.fail = "exit" -> exitFails(cfg)

\* __repro_call with a failing listener: whatever is thrown inside the try
\* block is caught by catch { return fn ? fn.apply(thisArg, args) :
\* undefined; }. trace.enter throws before fn was invoked; trace.exit after
\* it was
guardedCall(cfg) ==
    CASE cfg.fail = "none" -> reproCall(cfg)
      [] cfg.fail = "enter" ->
            LET a == apply(cfg, 1)
            IN  [evs |-> <<DispEnter("g", "dispatcher", 1)>> \o a.evs,
                 hs |-> a.hs, res |-> a.res, inv |-> 1]
      [] cfg.fail = "exit" -> orElse(exitFails(cfg), apply(cfg, 2))

\* markPromiseUnawaited(out): the dispatcher marks the thenable the first
\* invocation returned when the call is un-awaited, without a scope, on the
\* body-traced path and in invokeWithTrace; not when fn is invoked directly
\* because it is marked skip-wrap or because the dispatcher failed
marksResult(cfg, c) ==
    /\ cfg.unawaited
    /\ cfg.fnKind \in {"bodyTraced", "plain"}
    /\ cfg.fail # "enter"
    /\ c.inv = 1
    /\ c.res.kind = "return"
    /\ isThenable(c.res.val)

GuardInit ==
    /\ asmIdle
    /\ mwIdle
    /\ chunkIdle
    /\ busIdle
    /\ alsIdle
    /\ plugIdle
    /\ dispCfg \in GuardCfgs
    /\ dispPc = "start"
    /\ dispEvents = <<>>
    /\ dispInv = 0
    /\ dispResult = [kind |-> "none", val |-> UndefinedValue, marked |-> FALSE]
    /\ dispHandlers = <<>>
    /\ dispFired = {}

\* the caller calls __repro_call(g, ..., unawaited) and awaits what it
\* returns, or, if it throws, emits its exit with the exception and throws it
GuardCall ==
    /\ dispPc = "entered"
    /\ LET c == guardedCall(dispCfg)
           r == c.res
           awaited == <<Handler("await", r.val, "f", "body", 1)>>
           thrown(e) == <<DispExit("f", "body", 1, UndefinedValue, TRUE, e)>>
       IN  /\ dispInv' = c.inv
           /\ dispResult' = [kind |-> r.kind, val |-> r.val,
                             marked |-> marksResult(dispCfg, c)]
           /\ dispPc' = CASE ~dispCfg.scope -> "done"
                          [] dispCfg.scope /\ r.kind = "throw" -> "done"
                          [] dispCfg.scope /\ r.kind # "throw"
                                /\ ~isThenable(r.val) -> "resume"
                          [] dispCfg.scope /\ r.kind # "throw"
                                /\ isThenable(r.val)
                                /\ modeOf(dispCfg, r.val) = "thenThrows" -> "done"
                          [] OTHER -> "awaiting"
           /\ dispEvents' =
                 dispEvents \o c.evs
                 \o (IF ~dispCfg.scope THEN <<>>
                     ELSE IF r.kind = "throw" THEN thrown(r.val)
                     ELSE IF isThenable(r.val)
                             /\ modeOf(dispCfg, r.val) = "thenThrows"
                     THEN thrown(ThenError)
                     ELSE <<>>)
           /\ dispHandlers' =
                 c.hs \o (IF dispCfg.scope /\ r.kind # "throw"
                             /\ isThenable(r.val)
                             /\ modeOf(dispCfg, r.val) # "thenThrows"
                          THEN awaited ELSE <<>>)
    /\ UNCHANGED <<dispCfg, dispFired>>
    /\ UNCHANGED <<asmVars, mwVars, chunkVars, busVars, alsVars, plugVars>>

GuardNext ==
    \/ CallerEnter
    \/ GuardCall
    \/ Resume
    \/ \E i \in Invocations, k \in {"T", "U"}, way \in {"fulfil", "reject"} :
          Settle(<<k, i>>, way)

SpecGuard == GuardInit /\ [][GuardNext]_vars

\* ------------------------------------------------------------------------
\* Scope engine specification: an application runs inside one scope
\* (trace.withTrace), its calls go through __repro_call, its functions carry
\* the injected enter / exit or the wrapper of the tests, and the promises
\* they await settle in any order. The state is the heap of AsyncLocalStorage
\* stores with their span stacks, the store of the running code, the call
\* stack of the running job, the microtask queue and the promises.
\* ------------------------------------------------------------------------
\* values: <<"v", n>> a plain value, <<"P", n>> promise n, <<"Q", n>> query
\* builder n, UndefinedValue
PromiseRef(n) == <<"P", n>>
QueryRef(n) == <<"Q", n>>
PlainValue(n) == <<"v", n>>

\* runtime.js isThenable applied to a value of the scope engine: promises
\* and query builders have a then method
isThenableValue(v) == v[1] \in {"P", "Q"}

\* runtime.js isMongooseQuery: a thenable with an exec method and a model
isMongooseQuery_asPlainThenable(v) == FALSE

isMongooseQuery(v) == isThenableValue(v) /\ v[1] = "Q"

\* what the listener keeps of a return value
returnValueText(v) ==
    CASE v[1] = "P" -> "promise"
      [] v[1] = "Q" -> "builder"
      [] v[1] = "v" -> "value"
      [] OTHER -> Undefined

\* popSpan on an empty stack: { id: null, parentId: null, depth: null }
NoDepth == 0 - 1
NoSpan == [id |-> Null, parentId |-> Null, depth |-> NoDepth]

\* a ?? b for a depth
depthOr(a, b) == IF a = NoDepth THEN b ELSE a

\* the store of trace.withTrace(id, fn, depth = 0): its arrays are created
\* on first use
withTraceStore_depthOne(traceId) ==
    [traceId |-> traceId, depth |-> 1, stack |-> <<>>, frames |-> <<>>,
     pending |-> <<>>]

withTraceStore(traceId) ==
    [traceId |-> traceId, depth |-> 0, stack |-> <<>>, frames |-> <<>>,
     pending |-> <<>>]

\* forkAlsStoreForUnawaited: no span is ever marked suspended, the filter
\* keeps them all
forkAlsStoreForUnawaited_emptyStack(baseStore) ==
    [traceId |-> baseStore.traceId, depth |-> baseStore.depth,
     stack |-> <<>>, frames |-> <<>>, pending |-> <<>>]

forkAlsStoreForUnawaited(baseStore) ==
    [traceId |-> baseStore.traceId, depth |-> baseStore.depth,
     stack |-> baseStore.stack, frames |-> <<>>, pending |-> <<>>]

\* cloneStore of __repro_call
cloneStore_depthOfEmpty(store) ==
    [traceId |-> store.traceId, depth |-> 0,
     stack |-> store.stack, frames |-> <<>>, pending |-> <<>>]

cloneStore(store) ==
    [traceId |-> store.traceId, depth |-> store.depth,
     stack |-> store.stack, frames |-> <<>>, pending |-> <<>>]

\* makeCallStore of __repro_call: baseDepth is parentStore.depth
makeCallStore_emptyStack(parentStore) ==
    [traceId |-> parentStore.traceId, depth |-> parentStore.depth,
     stack |-> <<>>, frames |-> <<>>, pending |-> <<>>]

makeCallStore(parentStore) ==
    [traceId |-> parentStore.traceId, depth |-> parentStore.depth,
     stack |-> parentStore.stack, frames |-> <<>>, pending |-> <<>>]

\* the events of the scope engine, in the shape the listener stores
ScopeEnter(fn, line, depth, spanId, parentSpanId) ==
    [type |-> "enter", fn |-> fn, file |-> "app", line |-> line,
     functionType |-> "null",
     depth |-> depth, spanId |-> spanId, parentSpanId |-> parentSpanId,
     returnValue |-> Undefined, threw |-> FALSE, error |-> Undefined,
     unawaited |-> FALSE]

ScopeExit(fn, line, depth, spanId, parentSpanId, rv, unawaited) ==
    [type |-> "exit", fn |-> fn, file |-> "app", line |-> line,
     functionType |-> "null",
     depth |-> depth, spanId |-> spanId, parentSpanId |-> parentSpanId,
     returnValue |-> rv, threw |-> FALSE, error |-> Undefined,
     unawaited |-> unawaited]

\* a frame of the call stack of the running job: the body of a function
\* ("body"), the wrapper of the tests around one ("ext"), __repro_call
\* waiting for fn.apply to return ("disp"), reproWrappedArg ("argw")
NoFrame ==
    [k |-> "none", fn |-> "", pc |-> 0, phase |-> "at", prom |-> 0,
     act |-> 0, local |-> UndefinedValue, snap |-> 0, mode |-> "",
     parentStore |-> 0, callStore |-> 0, marker |-> 0, unaw |-> FALSE,
     line |-> 0, call |-> 0]

\* a continuation: the rest of an async function after an await ("resume"),
\* finalize of trace.exit ("exitFinalize"), finalize of invokeWithTrace
\* ("callFinalize"), the continuation reproPatchedExec attaches to the
\* promise of exec ("execCapture")
NoJob ==
    [k |-> "none", frame |-> NoFrame, store |-> 0, span |-> NoSpan,
     fn |-> "", line |-> 0, unaw |-> FALSE, depthAtExit |-> 0,
     act |-> 0, by |-> "", query |-> 0]

\* emitExit of trace.exit for the span spanInfo
emitExit(m, spanInfo, fn, line, depthAtExit, rv, unawaited, act, by) ==
    [m EXCEPT
        !.events = Append(@, ScopeExit(fn, line,
                                       depthOr(spanInfo.depth, depthAtExit),
                                       spanInfo.id, spanInfo.parentId,
                                       returnValueText(rv), unawaited)),
        !.who = Append(@, [act |-> act, by |-> by])]

\* finalize of trace.exit (243-251), called with the settled value
exitFinalize(m, h, value) ==
    emitExit(m, h.span, h.fn, h.line, h.depthAtExit, value, h.unaw, h.act, h.by)

\* promise.then(onFulfilled) on a native promise: the reaction waits for the
\* promise, or is queued at once when the promise is settled
promiseThen(m, n, job) ==
    IF m.proms[n].state = "pending"
    THEN [m EXCEPT !.proms[n].reactions = Append(@, job)]
    ELSE [m EXCEPT !.jobs = Append(@, job)]

\* a new pending promise; its number is Len(m.proms) + 1
newPromise(m, timer) ==
    [m EXCEPT !.proms = Append(@, [state |-> "pending", reactions |-> <<>>,
                                   marked |-> FALSE]),
              !.timers = IF timer THEN @ \cup {Len(m.proms) + 1} ELSE @]

\* the promise settles: its reactions are queued in the order of then()
settlePromise(m, n) ==
    [m EXCEPT !.proms[n].state = "fulfilled",
              !.proms[n].reactions = <<>>,
              !.jobs = @ \o m.proms[n].reactions,
              !.timers = @ \ {n}]

\* Qp.exec after initReproTracing: patchMongooseExecCapture installs
\* reproPatchedExec, and the finally clause of initReproTracing calls
\* restoreMongooseIfNeeded, which puts the original exec back
patchMongooseExecCapture(Qp) ==
    IF Qp.patched THEN Qp
    ELSE [exec |-> "reproPatchedExec", patched |-> TRUE]

restoreMongooseIfNeeded(Qp) ==
    IF Qp.exec # "origExec" THEN [Qp EXCEPT !.exec = "origExec"] ELSE Qp

initReproTracing ==
    restoreMongooseIfNeeded(
        patchMongooseExecCapture([exec |-> "origExec", patched |-> FALSE]))

\* query.exec(): the query runs (once more) and gives a promise the
\* database settles; reproPatchedExec also records the promise on the query
\* and attaches the continuation that drains the finalizers
queryExec(m, q, byTracer) ==
    LET m1 == newPromise(m, TRUE)
        p == Len(m1.proms)
        m2 == [m1 EXCEPT !.queries[q].execCount = @ + 1,
                         !.queries[q].tracerExecs =
                             IF byTracer THEN @ + 1 ELSE @]
    IN  IF m.Qp.exec = "reproPatchedExec"
        THEN promiseThen([m2 EXCEPT !.queries[q].isQuery = TRUE,
                                    !.queries[q].resultPromise = p],
                         p, [NoJob EXCEPT !.k = "execCapture", !.query = q])
        ELSE m2

\* the promise of the last exec of the machine
lastPromise(m) == Len(m.proms)

\* query.then(cb): a query builder runs itself when a continuation is
\* attached to it (then calls exec and attaches to its promise)
queryThen(m, q, job, byTracer) ==
    LET m1 == queryExec(m, q, byTracer)
    IN  promiseThen(m1, lastPromise(m1), job)

\* value.then(cb) for a thenable value
valueThen(m, v, job, byTracer) ==
    IF v[1] = "Q" THEN queryThen(m, v[2], job, byTracer)
    ELSE promiseThen(m, v[2], job)

\* queueQueryFinalizer
queueQueryFinalizer(m, q, job) ==
    [m EXCEPT !.queries[q].finalizers = Append(@, job)]

\* trace.enter(fn, meta, detail) in the store sid
traceEnter(m, sid, fn, line, parentSpanIdOverride, act, by) ==
    LET ctx == m.stores[sid]
        depth == ctx.depth + 1
        frameUnawaited == Len(ctx.pending) > 0
        id == m.spanCounter + 1
        parentId == IF parentSpanIdOverride # Null THEN parentSpanIdOverride
                    ELSE IF Len(ctx.stack) > 0
                    THEN ctx.stack[Len(ctx.stack)].id
                    ELSE Null
        span == [id |-> id, parentId |-> parentId, depth |-> depth]
    IN  [m EXCEPT
            !.stores[sid] =
                [ctx EXCEPT !.depth = depth,
                            !.frames = Append(@, frameUnawaited),
                            !.pending = IF Len(@) > 0 THEN Tail(@) ELSE @,
                            !.stack = Append(@, span)],
            !.spanCounter = id,
            !.events = Append(@, ScopeEnter(fn, line, depth, id, parentId)),
            !.who = Append(@, [act |-> act, by |-> by]),
            !.spanInfo = Append(@, [act |-> act, by |-> by, fn |-> fn,
                                    top |-> IF Len(ctx.stack) > 0
                                            THEN ctx.stack[Len(ctx.stack)].id
                                            ELSE Null,
                                    size |-> Len(ctx.stack) + 1,
                                    marker |-> IF Len(ctx.pending) > 0
                                               THEN Head(ctx.pending)
                                               ELSE 0]),
            !.acts[act].span = id]

\* trace.exit(meta, detail) in the store sid, for a call that did not throw
scopeTraceExit(m, sid, fn, line, rv, detailUnawaited, act, by) ==
    LET ctx == m.stores[sid]
        depthAtExit == ctx.depth
        frameUnawaited == IF Len(ctx.frames) > 0
                          THEN ctx.frames[Len(ctx.frames)] ELSE FALSE
        promiseTaggedUnawaited == rv[1] = "P" /\ m.proms[rv[2]].marked
        forceUnawaited ==
            detailUnawaited \/ frameUnawaited \/ promiseTaggedUnawaited
        \* popSpan(ctx) always gives an object, spanInfoPeek is never used
        spanForExit == IF Len(ctx.stack) > 0 THEN ctx.stack[Len(ctx.stack)]
                       ELSE NoSpan
        m1 == [m EXCEPT
                  !.stores[sid] =
                      [ctx EXCEPT
                          !.frames = IF Len(@) > 0
                                     THEN SubSeq(@, 1, Len(@) - 1) ELSE @,
                          !.stack = IF Len(@) > 0
                                    THEN SubSeq(@, 1, Len(@) - 1) ELSE @,
                          !.depth = Max(0, depthOr(spanForExit.depth,
                                                   depthAtExit) - 1)]]
        finalize == [NoJob EXCEPT !.k = "exitFinalize", !.span = spanForExit,
                                  !.fn = fn, !.line = line,
                                  !.unaw = forceUnawaited,
                                  !.depthAtExit = depthAtExit,
                                  !.act = act, !.by = by]
    IN  IF isThenableValue(rv)
        THEN IF isMongooseQuery(rv)
             THEN LET q == m.queries[rv[2]]
                  IN  IF q.resultPromise # 0
                      THEN promiseThen(m1, q.resultPromise, finalize)
                      ELSE IF q.hasResult
                      THEN exitFinalize(m1, finalize, PlainValue(0))
                      ELSE queueQueryFinalizer(m1, rv[2], finalize)
             ELSE valueThen(m1, rv, finalize, TRUE)
        ELSE emitExit(m1, spanForExit, fn, line, depthAtExit, rv,
                      forceUnawaited, act, by)

\* ------------------------------------------------------------------------
\* The applications the scope engine specification runs
\* ------------------------------------------------------------------------
\* one statement of a function body. "call": f(...) through __repro_call
\* (via "dispatch") or as written (via "direct"), awaited or not, the result
\* kept in the local variable; "callarg": a library function calls the
\* callback it was given; "wait": await of a timer or of the database;
\* "awaitlocal": await of the local variable
CallSite(fn, line, unaw, aw) ==
    [op |-> "call", fn |-> fn, via |-> "dispatch", line |-> line,
     unaw |-> unaw, await |-> aw]
DirectCall(fn, aw) ==
    [op |-> "call", fn |-> fn, via |-> "direct", line |-> 0,
     unaw |-> FALSE, await |-> aw]
CallbackCall(fn) ==
    [op |-> "callarg", fn |-> fn, via |-> "direct", line |-> 0,
     unaw |-> FALSE, await |-> FALSE]
AwaitTimer ==
    [op |-> "wait", fn |-> "", via |-> "", line |-> 0, unaw |-> FALSE,
     await |-> TRUE]
AwaitLocal ==
    [op |-> "awaitlocal", fn |-> "", via |-> "", line |-> 0, unaw |-> FALSE,
     await |-> TRUE]

\* a function: how its body is instrumented ("plugin": enter at the start
\* of the body and exit in its finally, wrap-plugin.js; "external": the
\* wrapper of the tests, enter before and exit after fn.apply; "none"),
\* whether it carries the body-traced mark, whether it is async, the line of
\* its definition, what it returns ("value", "local" the local variable,
\* "query" a new query builder, "exec" the promise of local.exec()) and its
\* statements
Fn(wrap, flagged, async, line, ret, body) ==
    [wrap |-> wrap, flagged |-> flagged, async |-> async, line |-> line,
     ret |-> ret, body |-> body]

\* the applications
Progs == {"notify", "harness", "sibling", "map", "fanout", "query", "visit"}

\* an application and how it is instrumented: wrap and flagged for its own
\* functions, slow when its leaf functions wait for the database, unaw the
\* un-awaited flag of the call in the map callback
AlsCfgs ==
    {c \in [prog : Progs, wrap : {"none", "plugin", "external"},
            flagged : BOOLEAN, slow : BOOLEAN, unaw : BOOLEAN] :
        /\ c.flagged => c.wrap # "none"
        /\ c.prog = "notify" => c.wrap \in {"none", "plugin"} /\ c.unaw
                                /\ (c.wrap = "plugin" => c.flagged)
        /\ c.prog = "harness" => c.wrap = "external" /\ c.flagged /\ c.unaw
        /\ c.prog = "sibling" => c.wrap \in {"external", "plugin"} /\ c.slow
                                 /\ c.unaw
        /\ c.prog = "map" => c.wrap \in {"none", "plugin"} /\ c.slow
        /\ c.prog = "fanout" => c.wrap \in {"none", "plugin"} /\ c.slow
                                /\ c.unaw
        /\ c.prog = "query" => c.wrap \in {"none", "plugin"} /\ ~c.unaw
        /\ c.prog = "visit" => c.wrap = "plugin" /\ ~c.slow}

\* the body of a leaf function that reads from the database
leafBody(cfg) == IF cfg.slow THEN <<AwaitTimer>> ELSE <<>>

\* src/unnamed/part_007 (lines 14-49, 92-105): route calls
\* notifyAboutShipmentDispatch un-awaited and awaits another call; the
\* three inner calls of notifyAboutShipmentDispatch are awaited. In
\* part_007 the call route awaits (line 103) is written without
\* __repro_call and emits nothing; here it is a call of findNotification
\* through __repro_call, as the call-site transform of wrap-plugin.js
\* writes every call, so that the caller's concurrent call is in the trace
notifyProgram(cfg, fn) ==
    CASE fn = "main" ->
            Fn("none", FALSE, TRUE, 0, "value", <<DirectCall("route", TRUE)>>)
      [] fn = "route" ->
            Fn(cfg.wrap, FALSE, TRUE, 92, "value",
               <<CallSite("notifyAboutShipmentDispatch", 1, TRUE, FALSE),
                 CallSite("findNotification", 2, FALSE, TRUE)>>)
      [] fn = "notifyAboutShipmentDispatch" ->
            Fn(cfg.wrap, cfg.flagged, TRUE, 20, "value",
               <<CallSite("findNotificationModule", 10, FALSE, TRUE),
                 CallSite("loadStudyModuleConfig", 11, FALSE, TRUE),
                 CallSite("loadStudyConfigUserModule", 12, FALSE, TRUE)>>)
      [] fn = "findNotification" ->
            Fn(cfg.wrap, cfg.flagged, TRUE, 13, "value", leafBody(cfg))
      [] fn = "findNotificationModule" ->
            Fn(cfg.wrap, cfg.flagged, TRUE, 15, "value", leafBody(cfg))
      [] fn = "loadStudyModuleConfig" ->
            Fn(cfg.wrap, cfg.flagged, TRUE, 16, "value", leafBody(cfg))
      [] fn = "loadStudyConfigUserModule" ->
            Fn(cfg.wrap, cfg.flagged, TRUE, 17, "value", leafBody(cfg))

\* src/tmp/unawaited.test.js, testUnawaitedOrdering (lines 31-77): the
\* functions are wrapped by wrapFunction, notifyAboutShipmentDispatch is
\* marked body-traced and calls the inner functions as written
harnessProgram(cfg, fn) ==
    CASE fn = "main" ->
            Fn("none", FALSE, TRUE, 0, "value",
               <<CallSite("notifyAboutShipmentDispatch", 1, TRUE, FALSE),
                 AwaitLocal>>)
      [] fn = "notifyAboutShipmentDispatch" ->
            Fn("external", TRUE, TRUE, 1, "value",
               <<DirectCall("findNotificationModule", TRUE),
                 DirectCall("loadStudyModuleConfig", TRUE),
                 DirectCall("loadStudyConfigUserModule", TRUE)>>)
      [] OTHER ->
            Fn("external", FALSE, TRUE, 1, "value", leafBody(cfg))

\* src/tmp/unawaited.test.js, testUnawaitedSiblingParenting (lines 79-153)
siblingProgram(cfg, fn) ==
    CASE fn = "main" ->
            Fn("none", FALSE, TRUE, 0, "value", <<DirectCall("parent", TRUE)>>)
      [] fn = "parent" ->
            Fn(cfg.wrap, cfg.flagged, TRUE, 1, "value",
               <<CallSite("unawaitedChild", 21, TRUE, FALSE),
                 CallSite("siblingWork", 22, FALSE, TRUE)>>)
      [] OTHER ->
            Fn(cfg.wrap, cfg.flagged, TRUE, 1, "value", <<AwaitTimer>>)

\* src/tmp/promise-map.test.js (lines 8-28): runScenario maps two handlers
\* to handlerWorker; a worker awaits getRecipients, then getTemplate
mapProgram(cfg, fn) ==
    CASE fn = "main" ->
            Fn("none", FALSE, TRUE, 0, "value",
               <<CallSite("runScenario", 37, FALSE, TRUE)>>)
      [] fn = "runScenario" ->
            Fn(cfg.wrap, cfg.flagged, TRUE, 25, "value",
               <<CallSite("map", 26, FALSE, FALSE)>>)
      [] fn = "map" ->
            Fn("none", FALSE, FALSE, 0, "value",
               <<CallbackCall("(anonymous)"), CallbackCall("(anonymous)")>>)
      [] fn = "(anonymous)" ->
            Fn(cfg.wrap, FALSE, FALSE, 26, "local",
               <<CallSite("handlerWorker", 26, cfg.unaw, FALSE)>>)
      [] fn = "handlerWorker" ->
            Fn(cfg.wrap, cfg.flagged, TRUE, 19, "value",
               <<CallSite("getRecipients", 20, FALSE, TRUE),
                 CallSite("getTemplate", 21, FALSE, TRUE)>>)
      [] fn = "getRecipients" ->
            Fn(cfg.wrap, FALSE, TRUE, 10, "value", <<AwaitTimer>>)
      [] fn = "getTemplate" ->
            Fn(cfg.wrap, FALSE, FALSE, 11, "value", <<>>)

\* a route that starts the same notification twice without awaiting it and
\* awaits another call
fanoutProgram(cfg, fn) ==
    CASE fn = "main" ->
            Fn("none", FALSE, TRUE, 0, "value", <<DirectCall("route", TRUE)>>)
      [] fn = "route" ->
            Fn(cfg.wrap, FALSE, TRUE, 92, "value",
               <<CallSite("notify", 1, TRUE, FALSE),
                 CallSite("notify", 1, TRUE, FALSE),
                 CallSite("findNotification", 2, FALSE, TRUE)>>)
      [] OTHER ->
            Fn(cfg.wrap, cfg.flagged, TRUE, 13, "value", <<AwaitTimer>>)

\* a route that gets a query builder from an app function and runs it, by
\* awaiting the builder or by awaiting its exec()
queryProgram(cfg, fn) ==
    CASE fn = "main" ->
            Fn("none", FALSE, TRUE, 0, "value", <<DirectCall("route", TRUE)>>)
      [] fn = "route" ->
            Fn(cfg.wrap, FALSE, TRUE, 92, "value",
               <<CallSite("getUsers", 5, FALSE, FALSE)>>
               \o (IF cfg.slow THEN <<CallSite("exec", 6, FALSE, TRUE)>>
                   ELSE <<AwaitLocal>>))
      [] fn = "getUsers" ->
            Fn(cfg.wrap, cfg.flagged, FALSE, 3, "local",
               <<CallSite("find", 4, FALSE, FALSE)>>)
      [] fn = "find" ->
            Fn("none", FALSE, FALSE, 0, "query", <<>>)
      [] fn = "exec" ->
            Fn("none", FALSE, FALSE, 0, "exec", <<>>)

\* a route hands a callback to an app function that calls it once per
\* item; the bodies are rewritten by the plugin, so the call of the
\* callback goes through __repro_call, which applies the wrapper of the
\* callback as it is (runtime.js 476-478)
visitProgram(cfg, fn) ==
    CASE fn = "main" ->
            Fn("none", FALSE, TRUE, 0, "value", <<DirectCall("route", TRUE)>>)
      [] fn = "route" ->
            Fn(cfg.wrap, FALSE, TRUE, 92, "value",
               <<CallSite("visitAll", 30, cfg.unaw, FALSE)>>)
      [] fn = "visitAll" ->
            Fn(cfg.wrap, cfg.flagged, FALSE, 31, "value",
               <<CallbackCall("(anonymous)"), CallbackCall("(anonymous)")>>)
      [] fn = "(anonymous)" ->
            Fn(cfg.wrap, FALSE, FALSE, 30, "value", <<>>)

FnDef(cfg, fn) ==
    CASE cfg.prog = "notify" -> notifyProgram(cfg, fn)
      [] cfg.prog = "harness" -> harnessProgram(cfg, fn)
      [] cfg.prog = "sibling" -> siblingProgram(cfg, fn)
      [] cfg.prog = "map" -> mapProgram(cfg, fn)
      [] cfg.prog = "fanout" -> fanoutProgram(cfg, fn)
      [] cfg.prog = "query" -> queryProgram(cfg, fn)
      [] cfg.prog = "visit" -> visitProgram(cfg, fn)

\* ------------------------------------------------------------------------
\* The steps of the scope engine specification
\* ------------------------------------------------------------------------
alsTop == alsCtl[Len(alsCtl)]
alsPop == SubSeq(alsCtl, 1, Len(alsCtl) - 1)
alsInstr(f) == FnDef(alsCfg, f.fn).body[f.pc]
alsAtInstr ==
    /\ Len(alsCtl) > 0
    /\ alsTop.k = "body"
    /\ alsTop.pc <= Len(FnDef(alsCfg, alsTop.fn).body)

\* the store as it is when the running job has ended
storeAfterPop(ctl, cur) == IF Len(ctl) = 0 THEN 0 ELSE cur

pushStore(m, store) == [m EXCEPT !.stores = Append(@, store)]

\* the top of a span stack, or null
topSpanId_bottom(store) ==
    IF Len(store.stack) > 0 THEN store.stack[1].id ELSE Null

topSpanId(store) ==
    IF Len(store.stack) > 0 THEN store.stack[Len(store.stack)].id ELSE Null

\* does fn call a callback it was given: only then the snapshot store of
\* wrapArgsWithStore is used
callsBack(cfg, fn) ==
    \E i \in 1..Len(FnDef(cfg, fn).body) : FnDef(cfg, fn).body[i].op = "callarg"

\* a new activation of fn, called from activation caller
newAct(m, fn, caller, via, unaw) ==
    [m EXCEPT
        !.acts = Append(@, [fn |-> fn, caller |-> caller, span |-> Null,
                            first |-> Null, via |-> via, unaw |-> unaw,
                            returned |-> FALSE, out |-> UndefinedValue])]

\* fn.apply(thisArg, args) up to the first statement of the body: the
\* wrapper of the tests and the injected prologue call trace.enter; an async
\* function has its promise from the start
startFn(m, sid, cfg, fn, act, local, snap) ==
    LET d == FnDef(cfg, fn)
        m1 == IF d.wrap \in {"external", "plugin"}
              THEN traceEnter(m, sid, fn, d.line, Null, act, "body")
              ELSE m
        m2 == IF d.async THEN newPromise(m1, FALSE) ELSE m1
        body == [NoFrame EXCEPT !.k = "body", !.fn = fn, !.pc = 1,
                                !.prom = IF d.async THEN Len(m2.proms) ELSE 0,
                                !.act = act, !.local = local, !.snap = snap]
        ext == [NoFrame EXCEPT !.k = "ext", !.fn = fn, !.act = act]
    IN  [m |-> m2,
         frames |-> IF d.wrap = "external" THEN <<ext, body>> ELSE <<body>>]

\* wrapArgsWithStore(args, baseStoreSnapshot): the callbacks among the
\* arguments are replaced by wrappers that hold the store snap; kept for
\* the properties: the span stack of the running store at that moment
passArgs(m, cur, snap) ==
    IF snap = 0 THEN m
    ELSE [m EXCEPT !.passed = Append(@, [snap |-> snap,
                                         stack |-> m.stores[cur].stack])]

\* where the call store of runWithCallStore lives: a new object
callStoreId_parent(m, parentStore) == parentStore

callStoreId(m, parentStore) == Len(m.stores) + 1

\* __repro_call in an active scope up to fn.apply: runWithCallStore makes
\* the call store and runs the call in it; a body-traced function runs in
\* the call store, or in a fork of it when the call is un-awaited; for any
\* other function invokeWithTrace calls trace.enter first
dispatch(m, cur, cfg, instr, act, local) ==
    LET d == FnDef(cfg, instr.fn)
        parentStore == cur
        cs == callStoreId(m, parentStore)
        m1 == IF cs > Len(m.stores)
              THEN pushStore(m, makeCallStore(m.stores[parentStore]))
              ELSE m
        m2 == IF instr.unaw
              THEN [m1 EXCEPT !.stores[cs].pending = Append(@, act)]
              ELSE m1
        frame == [NoFrame EXCEPT !.k = "disp", !.fn = instr.fn,
                                 !.act = act, !.parentStore = parentStore,
                                 !.callStore = cs,
                                 !.marker = IF instr.unaw THEN act ELSE 0,
                                 !.unaw = instr.unaw, !.line = instr.line]
    IN  IF d.flagged
        THEN LET m3 == IF instr.unaw
                       THEN pushStore(m2, forkAlsStoreForUnawaited(m2.stores[cs]))
                       ELSE m2
                 run == IF instr.unaw THEN Len(m3.stores) ELSE cs
                 s == startFn(passArgs(m3, cs, cs), run, cfg, instr.fn, act,
                              local, cs)
             IN  [m |-> s.m, cur |-> run,
                  frames |-> <<[frame EXCEPT !.mode = "bt"]>> \o s.frames]
        ELSE LET m3 == traceEnter(m2, cs, instr.fn, instr.line,
                                  topSpanId(m2.stores[cs]), act, "call")
                 m4 == IF callsBack(cfg, instr.fn)
                       THEN pushStore(m3, cloneStore(m3.stores[cs]))
                       ELSE m3
                 snap == IF callsBack(cfg, instr.fn) THEN Len(m4.stores) ELSE 0
                 s == startFn(passArgs(m4, cs, snap), cs, cfg, instr.fn, act,
                              local, snap)
             IN  [m |-> s.m, cur |-> cs,
                  frames |-> <<[frame EXCEPT !.mode = "trace"]>> \o s.frames]

\* reproWrappedArg: the callback runs in a clone of the snapshot store
wrappedArgCall(m, cur, cfg, instr, act, snap) ==
    LET m0 == pushStore(m, cloneStore(m.stores[snap]))
        m1 == [m0 EXCEPT !.invoked =
                  Append(@, [act |-> act, snap |-> snap,
                             stack |-> m0.stores[Len(m0.stores)].stack])]
        perCallStore == Len(m1.stores)
        s == startFn(m1, perCallStore, cfg, instr.fn, act, UndefinedValue, 0)
        frame == [NoFrame EXCEPT !.k = "argw", !.fn = instr.fn, !.act = act,
                                 !.parentStore = cur]
    IN  [m |-> s.m, cur |-> perCallStore, frames |-> <<frame>> \o s.frames]

\* a call statement: the callee is entered
AlsCall ==
    /\ alsAtInstr
    /\ alsTop.phase = "at"
    /\ alsInstr(alsTop).op \in {"call", "callarg"}
    /\ LET f == alsTop
           instr == alsInstr(f)
           m0 == newAct(alsM, instr.fn, f.act, instr.via, instr.unaw)
           act == Len(m0.acts)
           r == IF instr.op = "callarg" /\ f.snap # 0
                THEN wrappedArgCall(m0, alsCur, alsCfg, instr, act, f.snap)
                ELSE IF instr.via = "dispatch"
                THEN dispatch(m0, alsCur, alsCfg, instr, act, f.local)
                ELSE LET s == startFn(m0, alsCur, alsCfg, instr.fn, act,
                                      f.local, 0)
                     IN  [m |-> s.m, cur |-> alsCur, frames |-> s.frames]
           first == IF r.m.spanCounter > alsM.spanCounter
                    THEN alsM.spanCounter + 1 ELSE Null
       IN  /\ alsM' = [r.m EXCEPT !.acts[act].first = first,
                                  !.acts[act].span =
                                      IF @ = Null THEN alsM.acts[f.act].span
                                      ELSE @]
           /\ alsCur' = r.cur
           /\ alsCtl' = Append(alsPop, [f EXCEPT !.phase = "got"]) \o r.frames
           /\ alsRet' = UndefinedValue
    /\ UNCHANGED alsCfg
    /\ UNCHANGED <<asmVars, mwVars, chunkVars, busVars, dispVars, plugVars>>

\* the result of a call that is not awaited goes to the local variable
AlsAssign ==
    /\ alsAtInstr
    /\ alsTop.phase = "got"
    /\ ~alsInstr(alsTop).await
    /\ alsCtl' = Append(alsPop, [alsTop EXCEPT !.phase = "at", !.pc = @ + 1,
                                               !.local = alsRet])
    /\ alsRet' = UndefinedValue
    /\ UNCHANGED <<alsCfg, alsM, alsCur>>
    /\ UNCHANGED <<asmVars, mwVars, chunkVars, busVars, dispVars, plugVars>>

\* await: the rest of the async function becomes a continuation of the
\* awaited value, in the store that is current, and the function returns
\* its promise to whoever called or resumed it
AlsAwait ==
    /\ alsAtInstr
    /\ alsInstr(alsTop).await
    /\ alsTop.phase = "got" \/ alsInstr(alsTop).op \in {"wait", "awaitlocal"}
    /\ LET f == alsTop
           instr == alsInstr(f)
           m1 == IF instr.op = "wait" THEN newPromise(alsM, TRUE) ELSE alsM
           v == CASE instr.op = "wait" -> PromiseRef(Len(m1.proms))
                  [] instr.op = "awaitlocal" -> f.local
                  [] OTHER -> alsRet
           job == [NoJob EXCEPT !.k = "resume",
                                !.frame = [f EXCEPT !.phase = "at",
                                                    !.pc = @ + 1],
                                !.store = alsCur]
       IN  /\ alsM' = IF isThenableValue(v) THEN valueThen(m1, v, job, FALSE)
                      ELSE [m1 EXCEPT !.jobs = Append(@, job)]
           /\ alsCtl' = alsPop
           /\ alsCur' = storeAfterPop(alsPop, alsCur)
           /\ alsRet' = PromiseRef(f.prom)
    /\ UNCHANGED alsCfg
    /\ UNCHANGED <<asmVars, mwVars, chunkVars, busVars, dispVars, plugVars>>

\* what the body returns
returnOf(m, cfg, f) ==
    LET ret == FnDef(cfg, f.fn).ret
    IN  CASE ret = "local" -> [m |-> m, v |-> f.local]
          [] ret = "query" ->
                [m |-> [m EXCEPT !.queries =
                            Append(@, [execCount |-> 0, tracerExecs |-> 0,
                                       finalizers |-> <<>>,
                                       resultPromise |-> 0,
                                       hasResult |-> FALSE,
                                       isQuery |-> FALSE])],
                 v |-> QueryRef(Len(m.queries) + 1)]
          [] ret = "exec" ->
                LET m1 == queryExec(m, f.local[2], FALSE)
                IN  [m |-> m1, v |-> PromiseRef(lastPromise(m1))]
          [] OTHER -> [m |-> m, v |-> PlainValue(f.act)]

\* return x in an async function the plugin wrapped: the injected code
\* awaits x before it records the returned value (const _ret = await x)
awaitsReturn(cfg, f) ==
    FnDef(cfg, f.fn).wrap = "plugin" /\ FnDef(cfg, f.fn).async

AlsReturnAwait ==
    /\ Len(alsCtl) > 0
    /\ alsTop.k = "body"
    /\ alsTop.pc > Len(FnDef(alsCfg, alsTop.fn).body)
    /\ awaitsReturn(alsCfg, alsTop)
    /\ alsTop.phase # "ret"
    /\ LET f == alsTop
           job == [NoJob EXCEPT !.k = "resume",
                                !.frame = [f EXCEPT !.phase = "ret"],
                                !.store = alsCur]
       IN  /\ alsM' = [alsM EXCEPT !.jobs = Append(@, job)]
           /\ alsCtl' = alsPop
           /\ alsCur' = storeAfterPop(alsPop, alsCur)
           /\ alsRet' = PromiseRef(f.prom)
    /\ UNCHANGED alsCfg
    /\ UNCHANGED <<asmVars, mwVars, chunkVars, busVars, dispVars, plugVars>>

\* the end of a body: the injected finally calls trace.exit with the
\* returned value; an async function settles its promise
AlsReturn ==
    /\ Len(alsCtl) > 0
    /\ alsTop.k = "body"
    /\ alsTop.pc > Len(FnDef(alsCfg, alsTop.fn).body)
    /\ awaitsReturn(alsCfg, alsTop) => alsTop.phase = "ret"
    /\ LET f == alsTop
           d == FnDef(alsCfg, f.fn)
           r == returnOf(alsM, alsCfg, f)
           m1 == IF d.wrap = "plugin"
                 THEN scopeTraceExit(r.m, alsCur, f.fn, d.line, r.v, FALSE,
                                     f.act, "body")
                 ELSE r.m
       IN  /\ alsM' = IF d.async THEN settlePromise(m1, f.prom) ELSE m1
           /\ alsRet' = IF d.async THEN PromiseRef(f.prom) ELSE r.v
           /\ alsCtl' = alsPop
           /\ alsCur' = storeAfterPop(alsPop, alsCur)
    /\ UNCHANGED alsCfg
    /\ UNCHANGED <<asmVars, mwVars, chunkVars, busVars, dispVars, plugVars>>

\* the wrapper of the tests after fn.apply: trace.exit with what fn returned
AlsWrapperReturn ==
    /\ Len(alsCtl) > 0
    /\ alsTop.k = "ext"
    /\ alsM' = scopeTraceExit(alsM, alsCur, alsTop.fn,
                              FnDef(alsCfg, alsTop.fn).line, alsRet, FALSE,
                              alsTop.act, "body")
    /\ alsCtl' = alsPop
    /\ alsCur' = storeAfterPop(alsPop, alsCur)
    /\ UNCHANGED <<alsCfg, alsRet>>
    /\ UNCHANGED <<asmVars, mwVars, chunkVars, busVars, dispVars, plugVars>>

\* markPromiseUnawaited
markPromiseUnawaited(m, v) ==
    IF v[1] = "P" THEN [m EXCEPT !.proms[v[2]].marked = TRUE] ELSE m

\* the finally clauses of __repro_call: the pending marker is taken out of
\* the queue of the current store, if it is still there
removePendingMarker_leftInQueue(m, sid, marker) == m

removePendingMarker(m, sid, marker) ==
    [m EXCEPT !.stores[sid].pending =
        SelectSeq(@, LAMBDA x : x # marker)]

\* invokeWithTrace after fn.apply returned out (627-685): the exit runs in
\* a fork of the current store, now, or when out settles if out is a
\* thenable that is no query builder
afterApply(m, f, out) ==
    LET shouldForceExit == f.unaw /\ isThenableValue(out)
        m1 == IF shouldForceExit THEN markPromiseUnawaited(m, out) ELSE m
        m2 == pushStore(m1, forkAlsStoreForUnawaited(m1.stores[f.callStore]))
        exitStore == Len(m2.stores)
        finalize == [NoJob EXCEPT !.k = "callFinalize", !.store = exitStore,
                                  !.fn = f.fn, !.line = f.line,
                                  !.unaw = shouldForceExit, !.act = f.act,
                                  !.by = "call"]
    IN  IF isThenableValue(out) /\ ~isMongooseQuery(out)
        THEN valueThen(m2, out, finalize, TRUE)
        ELSE scopeTraceExit(m2, exitStore, f.fn, f.line, out,
                            shouldForceExit, f.act, "call")

\* __repro_call after fn.apply returned: invokeWithTrace arranges the exit,
\* the body-traced path only marks the promise; runWithCallStore goes back
\* to the parent store and the value fn returned is returned
AlsDispatchReturn ==
    /\ Len(alsCtl) > 0
    /\ alsTop.k = "disp"
    /\ LET f == alsTop
           out == alsRet
           m1 == IF f.mode = "trace" THEN afterApply(alsM, f, out)
                 ELSE IF f.unaw /\ isThenableValue(out)
                 THEN markPromiseUnawaited(alsM, out)
                 ELSE alsM
           m2 == IF f.marker # 0
                 THEN removePendingMarker(m1, f.callStore, f.marker)
                 ELSE m1
       IN  /\ alsM' = [m2 EXCEPT !.acts[f.act].returned = TRUE,
                                 !.acts[f.act].out = out]
           /\ alsRet' = out
           /\ alsCtl' = alsPop
           /\ alsCur' = storeAfterPop(alsPop, f.parentStore)
    /\ UNCHANGED alsCfg
    /\ UNCHANGED <<asmVars, mwVars, chunkVars, busVars, dispVars, plugVars>>

\* reproWrappedArg after the callback returned: als.run ends
AlsArgReturn ==
    /\ Len(alsCtl) > 0
    /\ alsTop.k = "argw"
    /\ alsCtl' = alsPop
    /\ alsCur' = storeAfterPop(alsPop, alsTop.parentStore)
    /\ UNCHANGED <<alsCfg, alsM, alsRet>>
    /\ UNCHANGED <<asmVars, mwVars, chunkVars, busVars, dispVars, plugVars>>

\* the next microtask is the rest of an async function: it resumes in the
\* store that was current at its await
AlsResume ==
    /\ alsCtl = <<>>
    /\ Len(alsM.jobs) > 0
    /\ Head(alsM.jobs).k = "resume"
    /\ alsM' = [alsM EXCEPT !.jobs = Tail(@)]
    /\ alsCtl' = <<[Head(alsM.jobs).frame EXCEPT !.local = PlainValue(0)]>>
    /\ alsCur' = Head(alsM.jobs).store
    /\ alsRet' = UndefinedValue
    /\ UNCHANGED alsCfg
    /\ UNCHANGED <<asmVars, mwVars, chunkVars, busVars, dispVars, plugVars>>

\* flushQueryFinalizers: the finalizers queued on the query are called in
\* order and the queue is emptied
RECURSIVE runFinalizers(_, _, _)
runFinalizers(m, callbacks, k) ==
    IF k > Len(callbacks) THEN m
    ELSE runFinalizers(exitFinalize(m, callbacks[k], PlainValue(0)),
                       callbacks, k + 1)

flushQueryFinalizers(m, q) ==
    runFinalizers([m EXCEPT !.queries[q].finalizers = <<>>],
                  m.queries[q].finalizers, 1)

\* the next microtask is a continuation the tracer attached: finalize of
\* trace.exit emits the exit of its span, finalize of invokeWithTrace
\* calls trace.exit in its exit store, the continuation of reproPatchedExec
\* records the result and drains the finalizers of the query
runHandler(m, h) ==
    CASE h.k = "exitFinalize" -> exitFinalize(m, h, PlainValue(0))
      [] h.k = "callFinalize" ->
            scopeTraceExit(m, h.store, h.fn, h.line, PlainValue(0), h.unaw,
                           h.act, h.by)
      [] h.k = "execCapture" ->
            flushQueryFinalizers([m EXCEPT !.queries[h.query].hasResult = TRUE],
                                 h.query)

AlsHandler ==
    /\ alsCtl = <<>>
    /\ Len(alsM.jobs) > 0
    /\ Head(alsM.jobs).k # "resume"
    /\ alsM' = runHandler([alsM EXCEPT !.jobs = Tail(@)], Head(alsM.jobs))
    /\ UNCHANGED <<alsCfg, alsCur, alsCtl, alsRet>>
    /\ UNCHANGED <<asmVars, mwVars, chunkVars, busVars, dispVars, plugVars>>

\* a timer fires or the database answers, when no microtask is left
AlsSettle(p) ==
    /\ alsCtl = <<>>
    /\ alsM.jobs = <<>>
    /\ p \in alsM.timers
    /\ alsM' = settlePromise(alsM, p)
    /\ UNCHANGED <<alsCfg, alsCur, alsCtl, alsRet>>
    /\ UNCHANGED <<asmVars, mwVars, chunkVars, busVars, dispVars, plugVars>>

AlsInit ==
    /\ alsCfg \in AlsCfgs
    /\ alsM = [stores |-> <<withTraceStore(1)>>, events |-> <<>>,
               who |-> <<>>, spanCounter |-> 0, spanInfo |-> <<>>,
               passed |-> <<>>, invoked |-> <<>>,
               proms |-> <<[state |-> "pending", reactions |-> <<>>,
                            marked |-> FALSE]>>,
               queries |-> <<>>, jobs |-> <<>>, timers |-> {},
               acts |-> <<[fn |-> "main", caller |-> 0, span |-> Null,
                           first |-> Null, via |-> "direct", unaw |-> FALSE,
                           returned |-> FALSE, out |-> UndefinedValue]>>,
               Qp |-> initReproTracing]
    /\ alsCur = 1
    /\ alsCtl = <<[NoFrame EXCEPT !.k = "body", !.fn = "main", !.pc = 1,
                                  !.prom = 1, !.act = 1]>>
    /\ alsRet = UndefinedValue
    /\ asmIdle /\ mwIdle /\ chunkIdle /\ busIdle /\ dispIdle /\ plugIdle

AlsNext ==
    \/ AlsCall
    \/ AlsAssign
    \/ AlsAwait
    \/ AlsReturnAwait
    \/ AlsReturn
    \/ AlsWrapperReturn
    \/ AlsDispatchReturn
    \/ AlsArgReturn
    \/ AlsResume
    \/ AlsHandler
    \/ \E p \in 1..Len(alsM.proms) : AlsSettle(p)

SpecAls == AlsInit /\ [][AlsNext]_vars

\* ------------------------------------------------------------------------
\* Call-site rewrite specification: the Babel plugin of wrap-plugin.js
\* visits a call expression of a source unit and replaces it by a call of
\* the dispatcher; the dependency path of part_001 swaps an export for a
\* function that calls the dispatcher. Then the code runs and __repro_call
\* receives its arguments
\* ------------------------------------------------------------------------
\* what the callee of a call expression is: an identifier or another
\* expression ("plain"), a member expression ("member"), the identifier
\* __repro_call ("helper"), super, import, or the call is optional (f?.())
Callees == {"plain", "member", "helper", "super", "import", "optional"}

\* the expressions between the call and the position that decides whether
\* its value is awaited, innermost first
WrapperKinds == {"paren", "sequence", "conditional", "logical", "array"}
MaxWrappers == 1
Wrappers == UNION {[1..n -> WrapperKinds] : n \in 0..MaxWrappers}

\* the position of the outermost of these expressions: operand of await or
\* of yield, argument of return in an async, a generator or a plain
\* function, right-hand side of for await, an expression statement, the
\* initializer of a declaration, an argument of another call
Positions == {"await", "yield", "returnAsync", "returnGenerator",
              "returnPlain", "forAwait", "statement", "init", "argument"}

CallSites == [callee : Callees, wrappers : Wrappers, position : Positions]

\* wrap-plugin.js, wrapCall, lines 529-532 (and 207-210): the calls the
\* plugin leaves as written
skipsCall(site) == site.callee \in {"helper", "super", "import", "optional"}

\* wrap-plugin.js, wrapCall, lines 547-614 (and 238-291): the arguments of
\* the dispatcher call that replaces the call: the callee, the object of a
\* member call or null, the array of the arguments, the file, the line and
\* the label. The same six for every call
wrapCall(site) ==
    IF skipsCall(site) THEN [kind |-> "call", args |-> <<>>]
    ELSE [kind |-> "dispatch",
          args |-> <<"fn", IF site.callee = "member" THEN "obj" ELSE "null",
                     "args", "file", "line", "label">>]

\* part_001, wrapFunction, lines 165-170: the arguments reproWrapped passes
depCallArgs == <<"original", "this", "args", "file", "line", "label", "false">>

\* runtime.js, line 474: the seventh parameter of __repro_call, undefined
\* when the caller passed six arguments; the dispatcher tests it as a
\* condition (lines 492, 601, 709)
isUnawaitedCall(args) ==
    IF Len(args) >= 7 THEN args[7] ELSE "undefined"

\* how many dispatcher calls a run makes
MaxDispatches == 2

PlugInit ==
    /\ plugSite \in CallSites
    /\ plugCode = [kind |-> "call", args |-> <<>>]
    /\ plugDep = "original"
    /\ plugCalls = <<>>
    /\ asmIdle /\ mwIdle /\ chunkIdle /\ busIdle /\ dispIdle /\ alsIdle

\* the visitor CallExpression.exit of the plugin (lines 626-628) reaches
\* the call site
PlugWrapCall ==
    /\ plugCode.kind = "call"
    /\ ~skipsCall(plugSite)
    /\ plugCalls = <<>>
    /\ plugCode' = wrapCall(plugSite)
    /\ UNCHANGED <<plugSite, plugDep, plugCalls>>
    /\ UNCHANGED <<asmVars, mwVars, chunkVars, busVars, dispVars, alsVars>>

\* part_001, wrapObjectMethods, lines 192-196: the export is replaced
PlugWrapFunction ==
    /\ plugDep = "original"
    /\ plugDep' = "wrapped"
    /\ UNCHANGED <<plugSite, plugCode, plugCalls>>
    /\ UNCHANGED <<asmVars, mwVars, chunkVars, busVars, dispVars, alsVars>>

\* the statement of the call site runs: a rewritten call reaches
\* __repro_call with the arguments the plugin wrote
PlugRunSite ==
    /\ Len(plugCalls) < MaxDispatches
    /\ plugCode.kind = "dispatch"
    /\ plugCalls' = Append(plugCalls,
                           [from |-> "site", args |-> plugCode.args,
                            unawaited |-> isUnawaitedCall(plugCode.args)])
    /\ UNCHANGED <<plugSite, plugCode, plugDep>>
    /\ UNCHANGED <<asmVars, mwVars, chunkVars, busVars, dispVars, alsVars>>

\* somebody calls the wrapped export
PlugRunDep ==
    /\ Len(plugCalls) < MaxDispatches
    /\ plugDep = "wrapped"
    /\ plugCalls' = Append(plugCalls,
                           [from |-> "dependency", args |-> depCallArgs,
                            unawaited |-> isUnawaitedCall(depCallArgs)])
    /\ UNCHANGED <<plugSite, plugCode, plugDep>>
    /\ UNCHANGED <<asmVars, mwVars, chunkVars, busVars, dispVars, alsVars>>

PlugNext ==
    \/ PlugWrapCall
    \/ PlugWrapFunction
    \/ PlugRunSite
    \/ PlugRunDep

SpecPlug == PlugInit /\ [][PlugNext]_vars



\* ------------------------------------------------------------------------
\* Vocabulary of the properties: the span tree of an event list
\* ------------------------------------------------------------------------
SpansIn(l) == {l[i].spanId : i \in 1..Len(l)} \ {Null}
PosOf(l, id) == {i \in 1..Len(l) : l[i].spanId = id}
EnterPos(l, id) == {i \in PosOf(l, id) : l[i].type = "enter"}
ExitPos(l, id) == {i \in PosOf(l, id) : l[i].type = "exit"}
\* the parent span id the events of a span carry
CarriedParent(l, id) == l[CHOOSE i \in PosOf(l, id) : TRUE].parentSpanId
\* the parent in the tree: the carried parent if it has events in the list
TreeParent(l, id) ==
    IF CarriedParent(l, id) \in SpansIn(l) THEN CarriedParent(l, id) ELSE Null
RECURSIVE TreeAncestors(_, _)
TreeAncestors(l, id) ==
    IF TreeParent(l, id) = Null THEN {}
    ELSE {TreeParent(l, id)} \cup TreeAncestors(l, TreeParent(l, id))
Subtree(l, id) == {d \in SpansIn(l) : d = id \/ id \in TreeAncestors(l, d)}
\* positions, in out, of the events of the subtree of id (tree taken from l)
SubtreePos(out, l, id) ==
    {i \in 1..Len(out) : out[i].spanId \in Subtree(l, id)}
IsInterval(S) == S = {} \/ S = SetMin(S)..SetMax(S)
FirstEmission(l, id) == SetMin(PosOf(l, id))
\* the span ids of a list in list order, depths and payloads left out
Shape(l) == [i \in 1..Len(l) |-> <<l[i].type, l[i].spanId>>]

\* ------------------------------------------------------------------------
\* C1: in the flushed trace, every enter with span id S has exactly one
\* exit with span id S.
\* ------------------------------------------------------------------------
C1_ExactlyOneExitPerEnter ==
    asmPc # "collect" =>
        \A i \in 1..Len(assembled) :
            assembled[i].type = "enter" =>
                Cardinality(ExitPos(assembled, assembled[i].spanId)) = 1

\* ------------------------------------------------------------------------
\* C2: the span ids of the events collected for two captured requests are
\* disjoint, whatever the headers of the requests.
\* ------------------------------------------------------------------------
C2_CollectedSpanIdsDisjoint ==
    \A r1, r2 \in Reqs :
        (r1 # r2 /\ mw[r1].state = "captured" /\ mw[r2].state = "captured")
            => SpansIn(mw[r1].events) \cap SpansIn(mw[r2].events) = {}

\* ------------------------------------------------------------------------
\* C3: a request without the session id header or without the action id
\* header is passed on: its listener is never subscribed, it collects no
\* event, no method of its response is replaced, no payload is posted for it.
\* ------------------------------------------------------------------------
C3_UntaggedRequestUntouched ==
    \A r \in Reqs :
        (mw[r].state # "new" /\ (~mw[r].hasSid \/ ~mw[r].hasAid))
            => /\ mw[r].state = "passed"
               /\ r \notin listeners
               /\ mw[r].events = <<>>
               /\ ~mw[r].resPatched
               /\ mw[r].idleTimer = NoTimer /\ mw[r].hardStopTimer = NoTimer
               /\ \A i \in 1..Len(posts) : posts[i].req # r

\* an untagged request whose handler has emitted an event, next to a
\* captured request that has collected one and that has been flushed
C3_Witness ==
    \E r, c \in Reqs :
        /\ mw[r].state = "passed"
        /\ mw[r].hasSid /\ ~mw[r].hasAid
        /\ Len(mw[r].ctx.stack) > 0
        /\ mw[c].state = "captured"
        /\ Len(mw[c].events) > 0
        /\ mw[c].flushed

\* ------------------------------------------------------------------------
\* C5: a captured request produces exactly one request payload: none before
\* its flush, one from then on, whatever timers expire, however often
\* 'finish' is notified and whatever events arrive late.
\* ------------------------------------------------------------------------
RequestPayloads(r) ==
    {i \in 1..Len(posts) : posts[i].kind = "request" /\ posts[i].req = r}

C5_OneRequestPayload ==
    \A r \in Reqs :
        /\ Cardinality(RequestPayloads(r)) = IF mw[r].flushed THEN 1 ELSE 0
        /\ (mw[r].finished /\ ~tracerReady) => mw[r].flushed

\* a flushed request whose 'finish' was notified twice, that collected an
\* event, and for which a hard-stop timer is still pending after the flush
C5_Witness ==
    \E r \in Reqs :
        /\ mw[r].flushed
        /\ mw[r].finishCount = 2
        /\ Len(mw[r].events) > 0
        /\ (mw[r].hardStopTimer # NoTimer \/ mw[r].leakedHard # {})
        /\ Cardinality(RequestPayloads(r)) = 1

\* ------------------------------------------------------------------------
\* C4: after the response of a captured request finishes, a flush eventually
\* happens, and while it has not happened the clock has not passed the hard
\* deadline (the first 'finish' plus hardDeadlineMs), whatever events arrive.
\* ------------------------------------------------------------------------
C4_FlushByHardDeadline ==
    /\ [](mw[R1].finished => <>mw[R1].flushed)
    /\ []((mw[R1].finished /\ ~mw[R1].flushed)
            => now <= mw[R1].finishedAt
                        + Max(lingerMs, idleMs) + TRACE_FLUSH_DELAY_MS)

\* a finished request that collected an event is flushed when its hard
\* deadline is reached
C4_Witness ==
    /\ mw[R1].flushed
    /\ Len(mw[R1].events) > 0
    /\ now = mw[R1].finishedAt + Max(lingerMs, idleMs) + TRACE_FLUSH_DELAY_MS
    /\ Len(posts) > 0
    /\ mw[R1].finishCount = 1

\* ------------------------------------------------------------------------
\* C6: the Assembler's output is a depth-first linearization of the span
\* tree: every span occurs once, the events of its subtree are contiguous,
\* begin with its enter and end with its exit, and siblings come in the
\* order of their first emission.
\* ------------------------------------------------------------------------
C6_DepthFirstLinearization ==
    asmPc # "collect" =>
        /\ SpansIn(assembled) = SpansIn(collected)
        /\ \A s \in SpansIn(collected) :
            /\ Cardinality(EnterPos(assembled, s)) <= 1
            /\ Cardinality(ExitPos(assembled, s)) <= 1
            /\ (EnterPos(collected, s) # {}) => (EnterPos(assembled, s) # {})
            /\ IsInterval(SubtreePos(assembled, collected, s))
            /\ \A i \in EnterPos(assembled, s) :
                  i = SetMin(SubtreePos(assembled, collected, s))
            /\ \A i \in ExitPos(assembled, s) :
                  i = SetMax(SubtreePos(assembled, collected, s))
        /\ \A s, t \in SpansIn(collected) :
            ( /\ s # t
              /\ TreeParent(collected, s) = TreeParent(collected, t)
              /\ FirstEmission(collected, s) < FirstEmission(collected, t) )
            => SetMax(SubtreePos(assembled, collected, s))
                 < SetMin(SubtreePos(assembled, collected, t))

\* a parent with two children, flushed in an order that differs from the
\* order of emission
C6_Witness ==
    /\ asmPc # "collect"
    /\ Shape(assembled) # Shape(balanced)
    /\ \E s, t \in SpansIn(collected) :
          /\ s # t
          /\ TreeParent(collected, s) # Null
          /\ TreeParent(collected, s) = TreeParent(collected, t)

\* ------------------------------------------------------------------------
\* C7 as stated: every event after the exit of span A carries span id A or
\* belongs to a span that is neither an ancestor nor a descendant of A.
\* ------------------------------------------------------------------------
C7_NoRelatedEventAfterExit ==
    asmPc # "collect" =>
        \A i, j \in 1..Len(assembled) :
            ( /\ i < j
              /\ assembled[i].type = "exit"
              /\ assembled[i].spanId # Null )
            => LET A == assembled[i].spanId
                   E == assembled[j]
               IN  \/ E.spanId = A
                   \/ /\ E.spanId \notin TreeAncestors(collected, A)
                      /\ A \notin TreeAncestors(collected, E.spanId)

\* C7 amended: every event after the exit of span A carries span id A, or
\* belongs to a span that is neither an ancestor nor a descendant of A, or
\* is the exit of an ancestor of A.
C7_OnlyAncestorExitsAfterExit ==
    asmPc # "collect" =>
        \A i, j \in 1..Len(assembled) :
            ( /\ i < j
              /\ assembled[i].type = "exit"
              /\ assembled[i].spanId # Null )
            => LET A == assembled[i].spanId
                   E == assembled[j]
               IN  \/ E.spanId = A
                   \/ /\ E.spanId \notin TreeAncestors(collected, A)
                      /\ A \notin TreeAncestors(collected, E.spanId)
                   \/ /\ E.type = "exit"
                      /\ E.spanId \in TreeAncestors(collected, A)

\* the exit of a child is followed by the exit of its parent and by an
\* event of an unrelated span
C7_Witness ==
    /\ asmPc # "collect"
    /\ \E i, j, k \in 1..Len(assembled) :
          /\ i < j /\ i < k
          /\ assembled[i].type = "exit"
          /\ assembled[i].spanId # Null
          /\ assembled[j].type = "exit"
          /\ assembled[j].spanId \in TreeAncestors(collected, assembled[i].spanId)
          /\ assembled[k].spanId # Null
          /\ assembled[k].spanId # assembled[i].spanId
          /\ assembled[k].spanId \notin TreeAncestors(collected, assembled[i].spanId)
          /\ assembled[i].spanId \notin TreeAncestors(collected, assembled[k].spanId)

\* ------------------------------------------------------------------------
\* C8: in the Assembler's output the enter and the exit of a span carry
\* depth 1 + the number of the span's ancestors in the tree.
\* ------------------------------------------------------------------------
C8_DepthIsTreeDepth ==
    asmPc # "collect" =>
        \A i \in 1..Len(assembled) :
            assembled[i].spanId # Null =>
                assembled[i].depth
                  = 1 + Cardinality(TreeAncestors(collected, assembled[i].spanId))

\* enter A, enter B, exit B, exit A with depths 1, 2, 2, 1, where an event
\* was collected with another depth than the one it is flushed with
C8_Witness ==
    /\ asmPc # "collect"
    /\ \E i \in 1..Len(assembled) :
          /\ i + 3 <= Len(assembled)
          /\ <<assembled[i].type, assembled[i + 1].type,
               assembled[i + 2].type, assembled[i + 3].type>>
               = <<"enter", "enter", "exit", "exit">>
          /\ assembled[i].spanId = assembled[i + 3].spanId
          /\ assembled[i + 1].spanId = assembled[i + 2].spanId
          /\ CarriedParent(collected, assembled[i + 1].spanId) = assembled[i].spanId
          /\ <<assembled[i].depth, assembled[i + 1].depth,
               assembled[i + 2].depth, assembled[i + 3].depth>> = <<1, 2, 2, 1>>
    /\ \E i \in 1..Len(assembled), j \in 1..Len(balanced) :
          /\ assembled[i].spanId # Null
          /\ assembled[i].spanId = balanced[j].spanId
          /\ assembled[i].type = balanced[j].type
          /\ assembled[i].depth # balanced[j].depth

\* ------------------------------------------------------------------------
\* C9: applying the Assembler to its own output returns the same list.
\* ------------------------------------------------------------------------
C9_AssemblerIdempotent ==
    asmPc = "again" => reassembled = assembled

\* ------------------------------------------------------------------------
\* C10: balancing adds one synthetic exit (same identification fields and
\* span id, depth one less, unawaited, no return value, no error) for every
\* enter without a matching exit later in the list, and none for the others.
\* ------------------------------------------------------------------------
\* the enters with no later exit of the same function, file, line and type
UnmatchedEnters(l) ==
    {i \in 1..Len(l) :
        /\ l[i].type = "enter"
        /\ ~\E j \in (i + 1)..Len(l) :
              /\ l[j].type = "exit"
              /\ l[j].fn = l[i].fn /\ l[j].file = l[i].file
              /\ l[j].line = l[i].line
              /\ l[j].functionType = l[i].functionType}

IsSyntheticExitOf(x, e) ==
    /\ x.type = "exit"
    /\ x.fn = e.fn /\ x.file = e.file /\ x.line = e.line
    /\ x.functionType = e.functionType
    /\ x.spanId = e.spanId
    /\ x.depth = e.depth - 1
    /\ x.unawaited = TRUE
    /\ x.returnValue = Undefined
    /\ x.error = Undefined

C10_SyntheticExitPerUnmatchedEnter ==
    asmPc # "collect" =>
        /\ Len(balanced) = Len(collected) + Cardinality(UnmatchedEnters(collected))
        /\ \A i \in UnmatchedEnters(collected) :
              Cardinality({j \in 1..Len(balanced) :
                              IsSyntheticExitOf(balanced[j], collected[i])}) = 1

\* ------------------------------------------------------------------------
\* C11: reordering keeps every event without a span id at the index it had
\* in the list handed to reorderTraceEvents.
\* ------------------------------------------------------------------------
C11_NoSpanEventKeepsIndex ==
    asmPc # "collect" =>
        \A i \in 1..Len(balanced) :
            balanced[i].spanId = Null
                => /\ i <= Len(assembled)
                   /\ assembled[i] = balanced[i]

\* ------------------------------------------------------------------------
\* C12: at flush the reordered list is split into chunks of the fixed size
\* (the last one possibly shorter), each posted as its own payload with the
\* scope id, its index and the number of chunks; the chunks concatenated by
\* index are the reordered list.
\* ------------------------------------------------------------------------
\* what the receiver reads from a trace string: an absent key is undefined
jsonParseEvent(j) ==
    [k \in DOMAIN j \cup OptionalKeys |->
        IF k \in DOMAIN j THEN j[k] ELSE Undefined]
jsonParse(str) == [i \in 1..Len(str) |-> jsonParseEvent(str[i])]

\* the payload with chunk index i
ChunkAt(i) == chunkPosts[CHOOSE p \in 1..Len(chunkPosts) : chunkPosts[p].index = i]

RECURSIVE ConcatChunks(_, _)
ConcatChunks(i, total) ==
    IF i >= total THEN <<>>
    ELSE jsonParse(ChunkAt(i).trace) \o ConcatChunks(i + 1, total)

C12_ChunksReconstructTrace ==
    chunkPc = "flushed" =>
        LET total == Len(chunkPosts)
        IN  /\ \A p \in 1..total :
                  /\ chunkPosts[p].rid = chunkRid
                  /\ chunkPosts[p].total = total
                  /\ chunkPosts[p].index \in 0..(total - 1)
                  /\ Len(chunkPosts[p].trace) =
                        IF chunkPosts[p].index < total - 1
                        THEN TRACE_BATCH_SIZE
                        ELSE Len(chunkEvents) - (total - 1) * TRACE_BATCH_SIZE
                  /\ Len(chunkPosts[p].trace) \in 1..TRACE_BATCH_SIZE
            /\ \A p1, p2 \in 1..total :
                  chunkPosts[p1].index = chunkPosts[p2].index => p1 = p2
            /\ ConcatChunks(0, total) = chunkEvents

\* a trace of three chunks, the last one shorter than the others
C12_Witness ==
    /\ chunkPc = "flushed"
    /\ Len(chunkPosts) = 3
    /\ Len(ChunkAt(2).trace) < TRACE_BATCH_SIZE
    /\ Len(ChunkAt(0).trace) = TRACE_BATCH_SIZE

\* ------------------------------------------------------------------------
\* C13: a listener whose unsubscribe function has been called is not called
\* for any event afterwards, also when it was removed while an event was
\* being delivered: a step that calls a listener calls a subscribed one.
\* ------------------------------------------------------------------------
EventsOf(l) == {busRecv[l][i] : i \in 1..Len(busRecv[l])}

C13_RemovedListenerNotCalled ==
    [][\A l \in Subs : busRecv'[l] # busRecv[l] => busActive[l]]_vars

\* listener l was removed while event e was being delivered and before its
\* turn: m was called with e and with the next event, l with neither
C13_Witness ==
    \E l, m \in Subs :
        /\ ~busActive[l]
        /\ busRemovedIn[l] # Null
        /\ busRemovedIn[l] \notin EventsOf(l)
        /\ busRemovedIn[l] + 1 \notin EventsOf(l)
        /\ {busRemovedIn[l], busRemovedIn[l] + 1} \subseteq EventsOf(m)
        /\ EventsOf(l) # {}
        /\ ~EMITTING

\* ------------------------------------------------------------------------
\* C14: every listener is called with the events in the order of their
\* emission (the events are numbered in that order).
\* ------------------------------------------------------------------------
C14_DeliveryInEmissionOrder ==
    \A l \in Subs :
        \A i, j \in 1..Len(busRecv[l]) :
            i < j => busRecv[l][i] <= busRecv[l][j]

\* two listeners were called with the events 1 and 3, event 2 was emitted
\* by a listener in between
C14_Witness ==
    \E l, m \in Subs :
        /\ l # m
        /\ busRecv[l] = <<1, 3>>
        /\ busRecv[m] = <<1, 3>>
        /\ busIgnored = {2}

\* ------------------------------------------------------------------------
\* C15: an event emitted while another one is being delivered is ignored:
\* no listener is ever called with it, the emitting listener included.
\* ------------------------------------------------------------------------
C15_ReentrantEmitIgnored ==
    \A e \in busIgnored : \A l \in Subs : e \notin EventsOf(l)

\* a listener emitted event 2 while it was called with event 1; the
\* delivery of event 1 went on to the next listener and ended
C15_Witness ==
    \E l, m \in Subs :
        /\ l # m
        /\ 2 \in busIgnored
        /\ busRecv[l] = <<1>>
        /\ busRecv[m] = <<1>>
        /\ busEntries = <<l, m>>
        /\ busSeq = 2
        /\ ~EMITTING

\* ------------------------------------------------------------------------
\* Vocabulary of the dispatcher properties
\* ------------------------------------------------------------------------
DispCalled == dispResult.kind # "none"
DispCallable == dispCfg.fnKind \in {"skipWrap", "bodyTraced", "plain"}
\* the positions of the events of kind type that function fn emitted
DispPositions(type, fn) ==
    {i \in 1..Len(dispEvents) : dispEvents[i].type = type /\ dispEvents[i].fn = fn}
\* an event without the fields that tell who emitted it
DispShape(e) ==
    [type |-> e.type, fn |-> e.fn, threw |-> e.threw, error |-> e.error]

\* ------------------------------------------------------------------------
\* C16: an exception the called function throws reaches the caller of the
\* dispatcher unchanged, and the exit of the traced frame carries threw =
\* true and that exception.
\* ------------------------------------------------------------------------
C16_UserExceptionPropagates ==
    (DispCalled /\ DispCallable /\ dispCfg.beh[1] = "throw") =>
        /\ dispResult = Thrown(ErrorOf(dispCfg, 1))
        /\ (dispCfg.scope /\ dispCfg.fnKind # "skipWrap") =>
              \E i \in DispPositions("exit", "g") :
                  /\ dispEvents[i].inv = 1
                  /\ dispEvents[i].threw
                  /\ dispEvents[i].error = ErrorOf(dispCfg, 1)

\* ------------------------------------------------------------------------
\* C17: when f awaits g() and g throws synchronously, the events are enter
\* f, enter g, exit g with threw and the error, exit f with threw and the
\* error.
\* ------------------------------------------------------------------------
C17_SyncThrowEventOrder ==
    (/\ dispPc = "done"
     /\ dispCfg.scope
     /\ dispCfg.fnKind \in {"bodyTraced", "plain"}
     /\ dispCfg.beh[1] = "throw") =>
        [i \in 1..Len(dispEvents) |-> DispShape(dispEvents[i])]
          = << [type |-> "enter", fn |-> "f", threw |-> FALSE, error |-> UndefinedValue],
               [type |-> "enter", fn |-> "g", threw |-> FALSE, error |-> UndefinedValue],
               [type |-> "exit", fn |-> "g", threw |-> TRUE,
                error |-> ErrorOf(dispCfg, 1)],
               [type |-> "exit", fn |-> "f", threw |-> TRUE,
                error |-> ErrorOf(dispCfg, 1)] >>

\* ------------------------------------------------------------------------
\* C18: for one call of a body-traced function through the dispatcher, the
\* dispatcher emits no enter and no exit of its own, and the call yields
\* exactly one enter.
\* ------------------------------------------------------------------------
C18_BodyTracedCallOneEnter ==
    (DispCalled /\ dispCfg.scope /\ dispCfg.fnKind = "bodyTraced") =>
        /\ \A i \in 1..Len(dispEvents) : dispEvents[i].by # "dispatcher"
        /\ Cardinality(DispPositions("enter", "g")) = 1

\* ------------------------------------------------------------------------
\* C19: when fn is not callable or is marked skip-wrap, or when no scope is
\* active, the dispatcher invokes fn directly: it emits no event, and the
\* caller gets what the one invocation of fn gives.
\* ------------------------------------------------------------------------
C19_DirectInvocation ==
    (/\ DispCalled
     /\ dispCfg.fnKind \in {"undefined", "object", "skipWrap"} \/ ~dispCfg.scope) =>
        /\ \A i \in 1..Len(dispEvents) : dispEvents[i].by # "dispatcher"
        /\ dispInv <= 1
        /\ dispResult = IF DispCallable THEN outcomeOf(dispCfg, 1)
                        ELSE Thrown(TypeError)

\* ------------------------------------------------------------------------
\* C20: a traced call that returns a thenable (no query) and is awaited
\* emits at most one exit, not before the thenable settles, carrying what
\* it settled with, and exactly one once it has settled: also when the
\* thenable calls both continuations or settles with another thenable.
\* ------------------------------------------------------------------------
ThenableCallExits ==
    {i \in DispPositions("exit", "g") : dispEvents[i].inv = 1}

C20_OneExitOnSettlement ==
    (/\ DispCalled
     /\ dispCfg.scope
     /\ dispCfg.fnKind \in {"bodyTraced", "plain"}
     /\ dispCfg.beh[1] = "thenable"
     /\ dispCfg.mode # "thenThrows") =>
        /\ Cardinality(ThenableCallExits) <= 1
        /\ \A i \in ThenableCallExits :
              \E f \in dispFired :
                  /\ f[1][2] = 1
                  /\ \/ /\ f[2] = "fulfil"
                        /\ ~dispEvents[i].threw
                        /\ dispEvents[i].returnValue = settleValue(dispCfg, f[1])
                     \/ /\ f[2] = "reject"
                        /\ dispEvents[i].threw
                        /\ dispEvents[i].error = RejectionOf(1)
        /\ (/\ \E way \in {"fulfil", "reject"} : <<ThenableOf(1), way>> \in dispFired
            /\ (dispCfg.mode = "nested" /\ dispCfg.fnKind = "plain")
                  => <<InnerOf(1), "fulfil">> \in dispFired)
              => ThenableCallExits # {}

\* the thenable has called both continuations, and there is one exit
C20_Witness ==
    /\ dispCfg.scope
    /\ dispCfg.fnKind = "plain"
    /\ dispCfg.beh[1] = "thenable"
    /\ dispCfg.mode = "both"
    /\ {<<ThenableOf(1), "fulfil">>, <<ThenableOf(1), "reject">>} \subseteq dispFired
    /\ Cardinality(ThenableCallExits) = 1
    /\ dispPc = "done"


\* ------------------------------------------------------------------------
\* Properties of the scope engine specification
\* ------------------------------------------------------------------------
\* the job has run to its end: nothing on the stack, no continuation queued,
\* no timer or database call outstanding
alsQuiet == alsCtl = <<>> /\ alsM.jobs = <<>> /\ alsM.timers = {}

\* the activations that returned the query builder q through a call the
\* tracer traced (trace.enter was called for them)
tracedReturnsOf(q) ==
    {a \in 1..Len(alsM.acts) :
        /\ alsM.acts[a].returned
        /\ alsM.acts[a].out = QueryRef(q)
        /\ alsM.acts[a].first # Null}

\* C21: the tracer never attaches a continuation to a query builder that a
\* traced call returned and never triggers its execution: no execution of a
\* query is started by the tracer, and a query the application executes once
\* is executed exactly once.
C21_TracerNeverExecutesQuery ==
    \A q \in 1..Len(alsM.queries) :
        /\ alsM.queries[q].tracerExecs = 0
        /\ alsM.queries[q].execCount <= 1
        /\ alsQuiet => alsM.queries[q].execCount = 1

C21_Witness ==
    /\ alsQuiet
    /\ \E q \in 1..Len(alsM.queries) :
        /\ alsM.queries[q].execCount = 1
        /\ Cardinality(tracedReturnsOf(q)) >= 2

\* the exits of span s in the emitted events that carry the return value rv
exitsOf(s, rv) ==
    {i \in 1..Len(alsM.events) :
        /\ alsM.events[i].type = "exit"
        /\ alsM.events[i].spanId = s
        /\ alsM.events[i].returnValue = rv}

\* C22: when a traced call returns a query builder, an exit is emitted
\* immediately with the builder as its return value and a finalizer is
\* enqueued; when the exec of the query has resolved, the finalizer queue is
\* drained and an exit with the resolved value has been emitted again.
C22_BuilderExitThenResolvedExit ==
    \A q \in 1..Len(alsM.queries) :
        \A a \in tracedReturnsOf(q) :
            /\ exitsOf(alsM.acts[a].first, "builder") # {}
            /\ alsQuiet =>
                  /\ alsM.queries[q].finalizers = <<>>
                  /\ exitsOf(alsM.acts[a].first, "value") # {}

\* the activations that __repro_call started un-awaited with a call-level
\* enter of its own, and whose function has returned a promise
unawaitedCallsReturned ==
    {a \in 1..Len(alsM.acts) :
        /\ alsM.acts[a].unaw
        /\ alsM.acts[a].returned
        /\ isThenableValue(alsM.acts[a].out)
        /\ alsM.acts[a].first # Null
        /\ alsM.spanInfo[alsM.acts[a].first].by = "call"}

\* C23: for a call dispatched with unawaited = true that returns a thenable,
\* an exit with unawaited = true is emitted as soon as the callee's body has
\* been scheduled: once the dispatcher has returned the promise, the exit of
\* the call is in the trace, whether or not the promise has settled.
C23_UnawaitedExitAtCallTime ==
    \A a \in unawaitedCallsReturned :
        \E i \in 1..Len(alsM.events) :
            /\ alsM.events[i].type = "exit"
            /\ alsM.events[i].spanId = alsM.acts[a].first
            /\ alsM.events[i].unawaited

\* the trace as the middleware would send it if it flushed now
alsAssembled == assemble(alsM.events)

\* the positions of the enter and of the exits of span s in a trace
enterAt(trace, s) ==
    {i \in 1..Len(trace) : trace[i].type = "enter" /\ trace[i].spanId = s}
exitAt(trace, s) ==
    {i \in 1..Len(trace) : trace[i].type = "exit" /\ trace[i].spanId = s}

\* the frames of un-awaited calls and the frames of the calls the same
\* caller made after them
unawaitedFrames ==
    {a \in 1..Len(alsM.acts) : alsM.acts[a].unaw /\ alsM.acts[a].first # Null}
laterSiblings(a) ==
    {b \in 1..Len(alsM.acts) :
        /\ b > a
        /\ alsM.acts[b].caller = alsM.acts[a].caller
        /\ alsM.acts[b].first # Null}

\* C24: for every call marked un-awaited, the exit of its frame is in the
\* assembled output before the enter of the next sibling frame of the caller.
C24_UnawaitedExitBeforeNextSibling ==
    \A a \in unawaitedFrames :
        \A b \in laterSiblings(a) :
            \A j \in enterAt(alsAssembled, alsM.acts[b].first) :
                \E i \in exitAt(alsAssembled, alsM.acts[a].first) : i < j

\* a trace as the tests compare it: type and function name of each event
typeAndFn(trace) == [i \in 1..Len(trace) |-> <<trace[i].type, trace[i].fn>>]

\* the events of a trace from the enter of fn to the last exit of fn
subtreeOf(trace, fn) ==
    LET ins == {i \in 1..Len(trace) :
                    trace[i].type = "enter" /\ trace[i].fn = fn}
        outs == {i \in 1..Len(trace) :
                    trace[i].type = "exit" /\ trace[i].fn = fn}
    IN  IF ins = {} \/ outs = {} THEN <<>>
        ELSE SubSeq(trace, SetMin(ins), SetMax(outs))

expectedNotifyTrace ==
    <<<<"enter", "notifyAboutShipmentDispatch">>,
      <<"enter", "findNotificationModule">>,
      <<"exit", "findNotificationModule">>,
      <<"enter", "loadStudyModuleConfig">>,
      <<"exit", "loadStudyModuleConfig">>,
      <<"enter", "loadStudyConfigUserModule">>,
      <<"exit", "loadStudyConfigUserModule">>,
      <<"exit", "notifyAboutShipmentDispatch">>>>

RECURSIVE actAncestors(_)
actAncestors(a) ==
    IF a = 0 THEN {} ELSE {a} \cup actAncestors(alsM.acts[a].caller)

\* the parent span recorded on the enter of span s
parentOfSpan(s) ==
    alsM.events[CHOOSE i \in enterAt(alsM.events, s) : TRUE].parentSpanId

\* the activations that made an un-awaited call that got a frame
unawaitedCallers == {alsM.acts[a].caller : a \in unawaitedFrames}

\* C26: spans opened inside an un-awaited callee never appear on the span
\* stack of the caller. The parent of the un-awaited child is the span of the
\* caller; a call the caller makes after the un-awaited call has the span of
\* the caller as parent, not the span of the un-awaited child; the exits the
\* caller emits carry the span id of the caller's own enter; and while the
\* body of the caller runs, its store holds only spans of the caller and of
\* the callers above it.
C26_UnawaitedSpansDoNotLeak ==
    /\ \A a \in unawaitedFrames :
          /\ parentOfSpan(alsM.acts[a].first) = alsM.acts[alsM.acts[a].caller].span
          /\ \A b \in laterSiblings(a) :
                /\ parentOfSpan(alsM.acts[b].first)
                      = alsM.acts[alsM.acts[a].caller].span
                /\ parentOfSpan(alsM.acts[b].first) # alsM.acts[a].first
    /\ \A i \in 1..Len(alsM.events) :
          (alsM.events[i].type = "exit" /\ alsM.who[i].act \in unawaitedCallers)
              => /\ alsM.events[i].spanId # Null
                 /\ alsM.spanInfo[alsM.events[i].spanId].act = alsM.who[i].act
                 /\ alsM.spanInfo[alsM.events[i].spanId].by = alsM.who[i].by
    /\ (Len(alsCtl) > 0 /\ alsTop.k = "body" /\ alsTop.act \in unawaitedCallers)
          => \A k \in 1..Len(alsM.stores[alsCur].stack) :
                alsM.spanInfo[alsM.stores[alsCur].stack[k].id].act
                    \in actAncestors(alsTop.act)

C26_Witness ==
    /\ alsQuiet
    /\ alsCfg.prog = "sibling"
    /\ \E a \in unawaitedFrames :
          /\ laterSiblings(a) # {}
          /\ alsM.acts[alsM.acts[a].caller].first # Null
          /\ exitAt(alsM.events, alsM.acts[alsM.acts[a].caller].first) # {}
          /\ \E b \in laterSiblings(a) :
                \E i \in exitAt(alsM.events, alsM.acts[a].first) :
                    \E j \in enterAt(alsM.events, alsM.acts[b].first) : j < i

\* the activations of fn that have entered
entered(fn) ==
    {a \in 1..Len(alsM.acts) :
        alsM.acts[a].fn = fn /\ alsM.acts[a].first # Null}

\* C27: the workers a map started run concurrently and each awaits
\* getRecipients before it calls getTemplate. Every worker has a span of its
\* own, and the enter of every getTemplate has a span of its own worker as
\* parent: no span of another worker and no span of getRecipients, in
\* whatever order the awaits of the workers end.
C27_TemplateUnderOwnWorker ==
    /\ \A w1, w2 \in entered("handlerWorker") :
          w1 # w2 => alsM.acts[w1].first # alsM.acts[w2].first
    /\ \A t \in entered("getTemplate") :
          LET p == parentOfSpan(alsM.acts[t].first)
          IN  /\ p # Null
              /\ alsM.spanInfo[p].act = alsM.acts[t].caller
              /\ alsM.spanInfo[p].fn = "handlerWorker"
    /\ \A t1, t2 \in entered("getTemplate") :
          t1 # t2 => parentOfSpan(alsM.acts[t1].first)
                        # parentOfSpan(alsM.acts[t2].first)

\* both workers have called getTemplate, the second worker first
C27_Witness ==
    /\ Cardinality(entered("handlerWorker")) = 2
    /\ Cardinality(entered("getTemplate")) = 2
    /\ \E t1, t2 \in entered("getTemplate") :
          /\ alsM.acts[t1].caller < alsM.acts[t2].caller
          /\ alsM.acts[t2].first < alsM.acts[t1].first

C30_PostFailureSwallowed ==
    chunkPc = "flushed" =>
        /\ [i \in 1..Len(chunkPosts) |-> chunkPosts[i].body]
              = postBodies(chunkRid, chunkEvents)
        /\ \A i \in 1..Len(chunkPosts) :
              /\ chunkPosts[i].fetchCalls <= 1
              /\ chunkPosts[i].promise \in {"pending", "fulfilled"}

\* the post of the first trace batch failed, the last batch was sent
C30_Witness ==
    /\ chunkPc = "flushed"
    /\ Len(chunkPosts) = 4
    /\ chunkPosts[1].fetch = "throws"
    /\ chunkPosts[2].fetch = "rejects"
    /\ chunkPosts[2].promise = "fulfilled"
    /\ chunkPosts[4].fetch = "fulfils"
    /\ chunkPosts[4].body.kind = "traceBatch"
    /\ chunkPosts[4].promise = "fulfilled"


\* ------------------------------------------------------------------------
\* Properties of the scope engine: depth, parent and callbacks
\* ------------------------------------------------------------------------
\* C32: at any point in a scope, after any sequence of enters, exits
\* (immediate or deferred to the settlement of a thenable), forks for
\* un-awaited calls and clones of a store, the length of the span stack of
\* every store of the scope equals its depth counter.
C32_StackLengthIsDepth ==
    \A s \in 1..Len(alsM.stores) :
        Len(alsM.stores[s].stack) = alsM.stores[s].depth

C32_Witness ==
    /\ alsCfg.prog = "map"
    /\ alsCfg.unaw
    /\ \E s \in 1..Len(alsM.stores) : Len(alsM.stores[s].stack) >= 3
    /\ \E i \in 1..Len(alsM.events) :
          alsM.events[i].type = "exit" /\ alsM.events[i].unawaited

\* the enter events emitted so far
alsEnters == {i \in 1..Len(alsM.events) : alsM.events[i].type = "enter"}

\* C33: the parent span id carried by every enter event equals the id of
\* the span that was on top of the span stack of the store at the moment of
\* emission, or null when the stack was empty.
C33_ParentIsTopOfStack ==
    \A i \in alsEnters :
        alsM.events[i].parentSpanId = alsM.spanInfo[alsM.events[i].spanId].top

C33_Witness ==
    /\ \E i \in alsEnters : alsM.events[i].parentSpanId = Null
    /\ \E i \in alsEnters :
          /\ alsM.spanInfo[alsM.events[i].spanId].size >= 3
          /\ alsM.spanInfo[alsM.events[i].spanId].by = "call"
          /\ alsM.events[i].parentSpanId # Null

\* C34: the depth carried by every enter event equals the size of the span
\* stack of the store counted with the entering span included, and is
\* therefore at least 1.
C34_EnterDepthIsStackSize ==
    \A i \in alsEnters :
        /\ alsM.events[i].depth = alsM.spanInfo[alsM.events[i].spanId].size
        /\ alsM.events[i].depth >= 1

C34_Witness ==
    /\ \E i \in alsEnters : alsM.events[i].depth = 1
    /\ \E i \in alsEnters :
          /\ alsM.events[i].depth >= 3
          /\ alsM.acts[alsM.who[i].act].unaw

\* the span stack of the running store when the wrapper holding the store
\* snap was made
passedStack(snap) ==
    alsM.passed[CHOOSE k \in 1..Len(alsM.passed) :
                    alsM.passed[k].snap = snap].stack

\* the activations of callbacks that went through reproWrappedArg
callbackActs == {alsM.invoked[k].act : k \in 1..Len(alsM.invoked)}

\* C35: a callback passed as an argument through the dispatcher runs, at
\* each later invocation, in a store whose span stack equals the span stack
\* at the moment the callback was passed; the spans pushed during one
\* invocation are not on the stack another invocation of it or of a sibling
\* callback starts with.
C35_CallbackStartsAtPassedStack ==
    \A k \in 1..Len(alsM.invoked) :
        /\ alsM.invoked[k].stack = passedStack(alsM.invoked[k].snap)
        /\ \A j \in 1..Len(alsM.invoked[k].stack) :
              \A a \in actAncestors(
                         alsM.spanInfo[alsM.invoked[k].stack[j].id].act) :
                  a \notin callbackActs

\* ------------------------------------------------------------------------
\* Properties of the middleware after the flush
\* ------------------------------------------------------------------------
\* the payloads of request r among the payloads handed to post()
postsOf(all, r) == SelectSeq(all, LAMBDA p : p.req = r)

\* C36 as stated: once a request has been flushed, its listener is
\* unsubscribed and both timers are cleared, and no event emitted afterwards
\* is appended to its list or sent in any payload.
C36_FlushedMeansTimersCleared ==
    [][\A r \in Reqs :
          /\ mw'[r].flushed =>
                /\ r \notin listeners'
                /\ mw'[r].idleTimer = NoTimer
                /\ mw'[r].hardStopTimer = NoTimer
          /\ mw[r].flushed =>
                /\ mw'[r].events = mw[r].events
                /\ postsOf(posts', r) = postsOf(posts, r)]_vars

\* C36, amended: once a request has been flushed, collection stops. The flush
\* unsubscribes the listener of the request and leaves both timers cleared;
\* from then on the request stays flushed and unsubscribed, the idle timer
\* is never armed again, no event emitted afterwards is appended to its
\* list, and nothing more of it is handed to post(). (A 'finish' notified
\* after the flush arms the hard-stop timer again.)
C36_CollectionStopsAtFlush ==
    [][\A r \in Reqs :
          /\ (~mw[r].flushed /\ mw'[r].flushed) =>
                /\ r \notin listeners'
                /\ mw'[r].idleTimer = NoTimer
                /\ mw'[r].hardStopTimer = NoTimer
          /\ mw[r].flushed =>
                /\ mw'[r].flushed
                /\ r \notin listeners'
                /\ mw'[r].idleTimer = NoTimer
                /\ mw'[r].events = mw[r].events
                /\ postsOf(posts', r) = postsOf(posts, r)]_vars

\* a flushed request whose handler entered a function after the flush: two
\* spans are open in its scope and one event was collected
C36_Witness ==
    \E r \in Reqs :
        /\ mw[r].flushed
        /\ mw[r].tidNow # Null
        /\ Len(mw[r].ctx.stack) = 2
        /\ Len(mw[r].events) = 1
        /\ Len(postsOf(posts, r)) = 2

\* ------------------------------------------------------------------------
\* C37: for every call of the dispatcher with a callable fn, fn is invoked
\* exactly once, in every path, also when fn throws synchronously, in an
\* active scope or without one.
\* ------------------------------------------------------------------------
C37_InvokedExactlyOnce ==
    (DispCalled /\ DispCallable) => dispInv = 1

\* ------------------------------------------------------------------------
\* C38: if a subscriber throws while an event is being delivered, the
\* EMITTING guard is reset, so every event emitted afterwards is still
\* delivered to the subscribers: the step in which a listener throws leaves
\* EMITTING false, and an emit the application makes while no listener is
\* running is never ignored, it starts its delivery.
\* ------------------------------------------------------------------------
C38_GuardResetAfterThrow ==
    [][/\ busThrew' # busThrew => ~EMITTING'
       /\ (busInCb = Null /\ busSeq' # busSeq) =>
             /\ busEv' = busSeq'
             /\ busSeq' \notin busIgnored']_vars

\* a listener threw while event 1 was being delivered, and event 2, emitted
\* afterwards, was delivered to two listeners
C38_Witness ==
    \E l, m \in Subs :
        /\ l # m
        /\ 1 \in busThrew
        /\ 2 \in EventsOf(l)
        /\ 2 \in EventsOf(m)
        /\ ~EMITTING

\* the un-awaited dispatcher calls that have returned
returnedUnawaitedCalls ==
    {a \in 1..Len(alsM.acts) :
        /\ alsM.acts[a].via = "dispatch"
        /\ alsM.acts[a].unaw
        /\ alsM.acts[a].returned}

awaitedPosition(site) ==
    site.position \in {"await", "yield", "returnAsync", "returnGenerator",
                       "forAwait"}

\* C31: every rewritten call site passes the dispatcher an unawaited flag
\* that is true exactly when the call expression is not in an awaited
\* position, and the dependency path always passes unawaited = false.
C31_UnawaitedFlagFollowsPosition ==
    \A i \in 1..Len(plugCalls) :
        /\ plugCalls[i].from = "site" =>
              (plugCalls[i].unawaited = "true") = ~awaitedPosition(plugSite)
        /\ plugCalls[i].from = "dependency" =>
              plugCalls[i].unawaited = "false"

====
